---- MODULE Spec2Model ----
(***************************************************************************)
(* Model of the items server: the persistent (store-backed) variant with   *)
(* refreshOne / refreshLoop / GET /api/items, the in-memory variant's TTL   *)
(* caches and resolvers, and the mapLimit worker pool.                      *)
(*                                                                         *)
(* Time is a discrete clock `now`.  One clock unit stands for PRICE_TTL_MS  *)
(* (30 minutes); the longer image TTLs are scaled down but stay strictly    *)
(* longer than the price TTL.  Store limits (200 / 60 / 500 / 20 records)   *)
(* are scaled to the size of the identifier set.                            *)
(***************************************************************************)
EXTENDS Integers, Sequences, FiniteSets, TLC

\* ---- bounds of the model
MaxTime == 3
MaxCalls == 2
MaxItems == 4
MaxLimit == 3
MaxRows == 3
MaxLines == 3
MaxCellLen == 3
MaxNumLen == 4
MaxPieces == 3
MaxNodes == 3

\* ---- program constants (scaled)
PRICE_TTL_MS == 1
CACHE_TTL_MS == 2
IMAGE_TTL_MS == 2
FIND_LIMIT == 3
CANDIDATE_CAP == 2
REQ_FIND_LIMIT == 3
N == 2

Names == {"n1", "n2"}
ScanNames == {"n1", "n2", "n3", "n4"}
ReqIds == {"r1"}
CallIds == 1..MaxCalls

NULLS == "null"          \* a null string-valued field (imageUrl, imageError, ...)
NoTime == -1             \* a null Date field
NoNum == -1              \* a null Number field
ImageResults == {"u1", NULLS}   \* what fetchSteamImage can resolve to
PriceResults == {"p1", NULLS}   \* what the priceoverview response can parse to
Keys == {"k1"}
FetchIds == {1, 2}
\* before: history, the cache as the call in progress found it
IdleFetch == [pc |-> "idle", key |-> "-", returned |-> "-", before |-> <<>>]
ItemVals == {"a", "b"}
EMPTY == "empty"         \* a hole of new Array(n)

VARIABLES
  now,          \* Date.now(), in clock units
  \* persistent variant
  store,        \* the Item collection: marketName -> document
  inFlight,     \* the inFlight Set of refreshOne
  calls,        \* the refreshOne invocations in progress
  loop,         \* refreshLoop: its position, candidates and cursor
  timers,       \* pending setTimeout(refreshLoop) timers
  reqs,         \* GET /api/items handlers of the persistent variant
  \* in-memory variant
  imageCache,   \* key -> [imageUrl, ts]
  priceCache,   \* key -> [data, ts]
  lastSet,      \* history: the last cacheSet / priceCacheSet of each key
  lastGet,      \* history: the last cacheGet / priceCacheGet and what it returned
  fetches,      \* fetchSteamImage / fetchSteamPrice invocations in progress
  \* mapLimit
  ml,           \* one mapLimit call
  mreq,         \* the GET /api/items handler of the in-memory variant
  \* sheet rows
  norm          \* one sheet text on its way to rows and records, or one line on its
                \* way to cells

dbVars == <<store, inFlight, calls, loop, timers, reqs>>
memVars == <<imageCache, priceCache, lastSet, lastGet, fetches>>
mapVars == <<ml, mreq, norm>>
vars == <<now, dbVars, memVars, mapVars>>

\* ---------------------------------------------------------------- store
\* $setOnInsert of upsertFromSheet: every enrichment field starts null.
NewDoc(seenAt) ==
  [ lastSeenAt |-> seenAt,
    imageUrl |-> NULLS, imageUpdatedAt |-> NoTime, imageError |-> NULLS,
    steamLowest |-> NoNum, steamMedian |-> NoNum, steamVolume |-> NoNum,
    steamUpdatedAt |-> NoTime, steamError |-> NULLS ]

\* an upsert that sets the enrichment fields to null on every ingest
UpsertDocResets(st, n, seenAt) ==
  [m \in DOMAIN st \cup {n} |-> IF m = n THEN NewDoc(seenAt) ELSE st[m]]

\* an upsert that leaves lastSeenAt of an existing record as it is
UpsertDocKeepsSeenAt(st, n, seenAt) ==
  IF n \in DOMAIN st THEN st
  ELSE [m \in DOMAIN st \cup {n} |-> IF m = n THEN NewDoc(seenAt) ELSE st[m]]

\* One updateOne op of the bulkWrite: $set of the sheet fields, insert if new.
UpsertDoc(st, n, seenAt) ==
  IF n \in DOMAIN st
    THEN [st EXCEPT ![n].lastSeenAt = seenAt]
    ELSE [m \in DOMAIN st \cup {n} |-> IF m = n THEN NewDoc(seenAt) ELSE st[m]]

RECURSIVE UpsertAll(_, _, _)
UpsertAll(st, ns, seenAt) ==
  IF ns = {} THEN st
  ELSE LET n == CHOOSE x \in ns : TRUE
       IN UpsertAll(UpsertDoc(st, n, seenAt), ns \ {n}, seenAt)

\* Item.find({}).sort({lastSeenAt: -1}).limit(k): every order the sort allows
\* (records with equal lastSeenAt come in either order), cut to k records.
Perms(S) ==
  { s \in [1..Cardinality(S) -> S] : \A i, j \in 1..Cardinality(S) : i # j => s[i] # s[j] }

Take(s, k) == SubSeq(s, 1, IF Len(s) < k THEN Len(s) ELSE k)

FindRecent(st, k) ==
  { Take(s, k) : s \in { p \in Perms(DOMAIN st) :
        \A i \in 1..(Len(p) - 1) : st[p[i]].lastSeenAt >= st[p[i + 1]].lastSeenAt } }

\* ---------------------------------------------------------------- refreshOne
\* a staleness test that counts an age of exactly the TTL as stale
isStaleAtTtl(dateObj, ttlMs) ==
  IF dateObj = NoTime THEN TRUE ELSE now - dateObj >= ttlMs

isStale(dateObj, ttlMs) ==
  IF dateObj = NoTime THEN TRUE ELSE now - dateObj > ttlMs

fetchSteamPrice(marketName) ==
  [lowest |-> NoNum, median |-> NoNum, volume |-> NoNum]

FreeCall ==
  [ pc |-> "free", name |-> "-", refreshPrice |-> FALSE, refreshImage |-> FALSE,
    origin |-> "-", dSteamAt |-> NoTime, wUrl |-> NULLS, wAt |-> NoTime,
    \* history of the call, for the properties
    overlapped |-> FALSE, imageCalls |-> 0, imageOutcome |-> "none",
    skippedPrice |-> FALSE,    \* a trigger the guard stopped had refreshPrice set
    dImageError |-> NULLS ]    \* imageError of the record as findOne read it

Active(cs) == { c \in CallIds : cs[c].pc # "free" }
FreeSlots(cs) == { c \in CallIds : cs[c].pc = "free" }
Min(S) == CHOOSE x \in S : \A y \in S : x <= y

\* refreshOne without its guard
GuardNeverBlocks(inF, marketName) == FALSE

\* The in-flight guard of refreshOne (line 452).
GuardBlocks(inF, marketName) == marketName \in inF

\* a guard that hands the kinds of a stopped trigger to the refresh in progress
RefreshOneIssueQueues(st, marketName, refreshPrice, refreshImage, origin) ==
  LET marked == [c \in CallIds |->
                   IF st.calls[c].pc # "free" /\ st.calls[c].name = marketName
                     THEN [st.calls[c] EXCEPT !.overlapped = TRUE,
                                              !.skippedPrice = @ \/ refreshPrice,
                                              !.refreshPrice = @ \/ refreshPrice]
                     ELSE st.calls[c]]
  IN IF GuardBlocks(st.inFlight, marketName)
       THEN [calls |-> marked, inFlight |-> st.inFlight, started |-> FALSE]
       ELSE LET c == Min(FreeSlots(st.calls))
            IN [calls |-> [marked EXCEPT ![c] =
                    [FreeCall EXCEPT !.pc = "findOne", !.name = marketName,
                       !.refreshPrice = refreshPrice, !.refreshImage = refreshImage,
                       !.origin = origin,
                       !.overlapped = \E d \in Active(st.calls) : st.calls[d].name = marketName]],
                inFlight |-> st.inFlight \cup {marketName},
                started |-> TRUE]

\* The synchronous prefix of refreshOne(marketName, {refreshPrice, refreshImage}):
\* the guard, inFlight.add and the issue of Item.findOne.  st = [calls, inFlight].
\* A call the guard stops returns at once and leaves st as it is, except that the
\* calls in progress for the same identifier are marked as overlapped.
RefreshOneIssue(st, marketName, refreshPrice, refreshImage, origin) ==
  LET marked == [c \in CallIds |->
                   IF st.calls[c].pc # "free" /\ st.calls[c].name = marketName
                     THEN [st.calls[c] EXCEPT !.overlapped = TRUE,
                                              !.skippedPrice = @ \/ refreshPrice]
                     ELSE st.calls[c]]
  IN IF GuardBlocks(st.inFlight, marketName)
       THEN [calls |-> marked, inFlight |-> st.inFlight, started |-> FALSE]
       ELSE LET c == Min(FreeSlots(st.calls))
            IN [calls |-> [marked EXCEPT ![c] =
                    [FreeCall EXCEPT !.pc = "findOne", !.name = marketName,
                       !.refreshPrice = refreshPrice, !.refreshImage = refreshImage,
                       !.origin = origin,
                       !.overlapped = \E d \in Active(st.calls) : st.calls[d].name = marketName]],
                inFlight |-> st.inFlight \cup {marketName},
                started |-> TRUE]

\* A call that passes the guard needs a slot of the model.
CanIssue(st, marketName) ==
  GuardBlocks(st.inFlight, marketName) \/ FreeSlots(st.calls) # {}

\* ---------------------------------------------------------------- refreshLoop
\* The single worker (MAX_CONCURRENCY = 1) of refreshLoop: take candidates from
\* idx on; a refreshOne the guard stops resolves at once and the worker goes on.
RECURSIVE LoopRun(_, _, _)
LoopRun(st, cand, idx) ==
  IF idx >= Len(cand)
    THEN [calls |-> st.calls, inFlight |-> st.inFlight, idx |-> idx, waiting |-> FALSE]
    ELSE LET r == RefreshOneIssue(st, cand[idx + 1], TRUE, TRUE, "loop")
         IN IF r.started
              THEN [calls |-> r.calls, inFlight |-> r.inFlight, idx |-> idx + 1, waiting |-> TRUE]
              ELSE LoopRun([calls |-> r.calls, inFlight |-> r.inFlight], cand, idx + 1)

\* a cycle that ends without setting the timer
ScheduleNothing(t) == t

\* setTimeout(refreshLoop, 30_000) in the finally block.
ScheduleNext(t) == t + 1

IdleLoop == [pc |-> "idle", cand |-> <<>>, idx |-> 0]

\* a cycle that sets its timer without awaiting its workers
LoopContinueNoAwait(st, cand, idx) ==
  LET r == LoopRun(st, cand, idx)
  IN /\ calls' = r.calls
     /\ inFlight' = r.inFlight
     /\ timers' = ScheduleNext(timers)
     /\ loop' = IF r.waiting THEN [pc |-> "refreshing", cand |-> cand, idx |-> r.idx]
                            ELSE IdleLoop

\* The worker continues after a call; the cycle ends when it runs out of candidates.
LoopContinue(st, cand, idx) ==
  LET r == LoopRun(st, cand, idx)
  IN /\ calls' = r.calls
     /\ inFlight' = r.inFlight
     /\ IF r.waiting
          THEN /\ loop' = [pc |-> "refreshing", cand |-> cand, idx |-> r.idx]
               /\ timers' = timers
          ELSE /\ loop' = IdleLoop
               /\ timers' = ScheduleNext(timers)

\* candidate filter of refreshLoop (lines 515-522)
IsCandidate(d) ==
  \/ d.imageUrl = NULLS
  \/ isStale(d.imageUpdatedAt, IMAGE_TTL_MS)
  \/ isStale(d.steamUpdatedAt, PRICE_TTL_MS)

RECURSIVE FilterSeq(_, _)
FilterSeq(s, st) ==
  IF s = <<>> THEN <<>>
  ELSE IF IsCandidate(st[Head(s)]) THEN <<Head(s)>> \o FilterSeq(Tail(s), st)
       ELSE FilterSeq(Tail(s), st)

\* a candidate list that is not capped
CandidatesUncapped(docs, st) == FilterSeq(docs, st)

Candidates(docs, st) == Take(FilterSeq(docs, st), CANDIDATE_CAP)

\* app.listen callback: the first refreshLoop() call.
Listen ==
  /\ loop.pc = "boot"
  /\ loop' = [pc |-> "scanning", cand |-> <<>>, idx |-> 0]
  /\ UNCHANGED <<now, store, inFlight, calls, timers, reqs, memVars, mapVars>>

\* The timer set by the previous cycle fires: refreshLoop() runs again.
LoopTimer ==
  /\ timers > 0
  /\ timers' = timers - 1
  /\ loop' = [pc |-> "scanning", cand |-> <<>>, idx |-> 0]
  /\ UNCHANGED <<now, store, inFlight, calls, reqs, memVars, mapVars>>

\* Item.find(...) of the loop resolves: candidate selection, then the worker starts.
LoopFindDone ==
  /\ loop.pc = "scanning"
  /\ \E docs \in FindRecent(store, FIND_LIMIT) :
       LoopContinue([calls |-> calls, inFlight |-> inFlight], Candidates(docs, store), 0)
  /\ UNCHANGED <<now, store, reqs, memVars, mapVars>>

\* Item.find(...) of the loop rejects: catch, then finally.
LoopFindFail ==
  /\ loop.pc = "scanning"
  /\ loop' = IdleLoop
  /\ timers' = ScheduleNext(timers)
  /\ UNCHANGED <<now, store, inFlight, calls, reqs, memVars, mapVars>>

\* ---------------------------------------------------------------- refreshOne steps
\* a refreshOne without finally: an error leaves the identifier in inFlight
FinishNoFinally(c, rec, threw) ==
  LET cs == [calls EXCEPT ![c] = FreeCall]
      inF == IF threw THEN inFlight ELSE inFlight \ {rec.name}
  IN IF rec.origin = "loop"
          THEN IF threw
                 THEN /\ calls' = cs
                      /\ inFlight' = inF
                      /\ loop' = IdleLoop
                      /\ timers' = ScheduleNext(timers)
                 ELSE LoopContinue([calls |-> cs, inFlight |-> inF], loop.cand, loop.idx)
          ELSE /\ calls' = cs
               /\ inFlight' = inF
               /\ UNCHANGED <<loop, timers>>

\* refreshOne returns or throws: the finally block, and the caller's continuation.
Finish(c, rec, threw) ==
  LET cs == [calls EXCEPT ![c] = FreeCall]
      inF == inFlight \ {rec.name}
  IN IF rec.origin = "loop"
          THEN IF threw
                 THEN /\ calls' = cs
                      /\ inFlight' = inF
                      /\ loop' = IdleLoop
                      /\ timers' = ScheduleNext(timers)
                 ELSE LoopContinue([calls |-> cs, inFlight |-> inF], loop.cand, loop.idx)
          ELSE /\ calls' = cs
               /\ inFlight' = inF
               /\ UNCHANGED <<loop, timers>>

Stay(c, rec) ==
  /\ calls' = [calls EXCEPT ![c] = rec]
  /\ UNCHANGED <<inFlight, loop, timers>>

\* fetchSteamImage(marketName) is called: one image upstream call for the
\* identifier, counted in every call in progress for it.
IssueImageFetch(c, rec) ==
  /\ calls' = [d \in CallIds |->
        IF d = c THEN [rec EXCEPT !.pc = "fetchImage", !.imageCalls = @ + 1]
        ELSE IF calls[d].pc # "free" /\ calls[d].name = rec.name
          THEN [calls[d] EXCEPT !.imageCalls = @ + 1]
          ELSE calls[d]]
  /\ UNCHANGED <<inFlight, loop, timers>>

\* a price part that is skipped once the image resolution has failed
PricePartUnlessImageFailed(c, rec) ==
  IF rec.refreshPrice /\ isStale(rec.dSteamAt, PRICE_TTL_MS) /\ rec.imageOutcome # "failed"
    THEN Stay(c, [rec EXCEPT !.pc = "updPrice", !.wAt = now])
    ELSE Finish(c, rec, FALSE)

\* The price part of refreshOne (line 479 on), reached after the image part.
PricePart(c, rec) ==
  IF rec.refreshPrice /\ isStale(rec.dSteamAt, PRICE_TTL_MS)
    THEN Stay(c, [rec EXCEPT !.pc = "updPrice", !.wAt = now])
    ELSE Finish(c, rec, FALSE)

\* The image condition of refreshOne (lines 460-463) on the record read.
NeedsImage(refreshImage, doc) ==
  refreshImage /\ (isStale(doc.imageUpdatedAt, IMAGE_TTL_MS) \/ doc.imageUrl = NULLS)

\* Item.findOne resolves.
FindOneDone(c) ==
  /\ calls[c].pc = "findOne"
  /\ LET rec == calls[c]
         n == rec.name
     IN IF n \notin DOMAIN store
          THEN Finish(c, rec, FALSE)
          ELSE LET doc == store[n]
                   r1 == [rec EXCEPT !.dSteamAt = doc.steamUpdatedAt,
                                     !.dImageError = doc.imageError]
               IN IF NeedsImage(rec.refreshImage, doc)
                    THEN IssueImageFetch(c, r1)
                    ELSE PricePart(c, r1)
  /\ UNCHANGED <<now, store, reqs, memVars, mapVars>>

\* Item.findOne rejects: the error leaves refreshOne through finally.
FindOneFail(c) ==
  /\ calls[c].pc = "findOne"
  /\ Finish(c, calls[c], TRUE)
  /\ UNCHANGED <<now, store, reqs, memVars, mapVars>>

\* fetchSteamImage resolves (a URL or null): the success updateOne is issued.
ImageFetchDone(c) ==
  /\ calls[c].pc = "fetchImage"
  /\ \E u \in ImageResults :
       Stay(c, [calls[c] EXCEPT !.pc = "updImage", !.wUrl = u, !.wAt = now,
                                !.imageOutcome = "ok"])
  /\ UNCHANGED <<now, store, reqs, memVars, mapVars>>

\* fetchSteamImage rejects: the catch block issues the imageError updateOne.
ImageFetchFail(c) ==
  /\ calls[c].pc = "fetchImage"
  /\ Stay(c, [calls[c] EXCEPT !.pc = "updImageErr", !.imageOutcome = "failed"])
  /\ UNCHANGED <<now, store, reqs, memVars, mapVars>>

\* an image write that replaces the whole record
ImageSuccessSetReplaces(doc, imageUrl, at) ==
  [NewDoc(doc.lastSeenAt) EXCEPT !.imageUrl = imageUrl, !.imageUpdatedAt = at]

\* an image success write that leaves imageError as it is
ImageSuccessSetKeepsError(doc, imageUrl, at) ==
  [doc EXCEPT !.imageUrl = imageUrl, !.imageUpdatedAt = at]

\* $set of the image success write (line 468)
ImageSuccessSet(doc, imageUrl, at) ==
  [doc EXCEPT !.imageUrl = imageUrl, !.imageUpdatedAt = at, !.imageError = NULLS]

\* a failure write that also stamps the record as updated
ImageFailureSetStamps(doc, at) == [doc EXCEPT !.imageError = "err", !.imageUpdatedAt = at]

\* $set of the image failure write (line 473)
ImageFailureSet(doc, at) == [doc EXCEPT !.imageError = "err"]

\* $set of the price success write (lines 485-491)
PriceSuccessSet(doc, p, at) ==
  [doc EXCEPT !.steamLowest = p.lowest, !.steamMedian = p.median,
              !.steamVolume = p.volume, !.steamUpdatedAt = at, !.steamError = NULLS]

\* $set of the price failure write (line 497)
PriceFailureSet(doc, at) == [doc EXCEPT !.steamError = "err"]

ImageWriteDone(c) ==
  /\ calls[c].pc = "updImage"
  /\ store' = [store EXCEPT ![calls[c].name] = ImageSuccessSet(@, calls[c].wUrl, calls[c].wAt)]
  /\ PricePart(c, calls[c])
  /\ UNCHANGED <<now, reqs, memVars, mapVars>>

\* the success updateOne rejects: caught by the same catch block
ImageWriteFail(c) ==
  /\ calls[c].pc = "updImage"
  /\ Stay(c, [calls[c] EXCEPT !.pc = "updImageErr"])
  /\ UNCHANGED <<now, store, reqs, memVars, mapVars>>

ImageErrWriteDone(c) ==
  /\ calls[c].pc = "updImageErr"
  /\ store' = [store EXCEPT ![calls[c].name] = ImageFailureSet(@, now)]
  /\ PricePart(c, calls[c])
  /\ UNCHANGED <<now, reqs, memVars, mapVars>>

\* the updateOne inside the catch block rejects: nothing catches it
ImageErrWriteFail(c) ==
  /\ calls[c].pc = "updImageErr"
  /\ Finish(c, calls[c], TRUE)
  /\ UNCHANGED <<now, store, reqs, memVars, mapVars>>

PriceWriteDone(c) ==
  /\ calls[c].pc = "updPrice"
  /\ store' = [store EXCEPT ![calls[c].name] =
                 PriceSuccessSet(@, fetchSteamPrice(calls[c].name), calls[c].wAt)]
  /\ Finish(c, calls[c], FALSE)
  /\ UNCHANGED <<now, reqs, memVars, mapVars>>

PriceWriteFail(c) ==
  /\ calls[c].pc = "updPrice"
  /\ Stay(c, [calls[c] EXCEPT !.pc = "updPriceErr"])
  /\ UNCHANGED <<now, store, reqs, memVars, mapVars>>

PriceErrWriteDone(c) ==
  /\ calls[c].pc = "updPriceErr"
  /\ store' = [store EXCEPT ![calls[c].name] = PriceFailureSet(@, now)]
  /\ Finish(c, calls[c], FALSE)
  /\ UNCHANGED <<now, reqs, memVars, mapVars>>

PriceErrWriteFail(c) ==
  /\ calls[c].pc = "updPriceErr"
  /\ Finish(c, calls[c], TRUE)
  /\ UNCHANGED <<now, store, reqs, memVars, mapVars>>

\* ---------------------------------------------------------------- GET /api/items
\* res is the response of the handler's latest run: none yet, res.json({header,
\* items}) or res.status(500).json({error}).
IdleReq == [pc |-> "idle", includePrice |-> FALSE, rows |-> {}, bulkOk |-> TRUE, res |-> "-"]

ResItems == [IdleReq EXCEPT !.res = "items"]
ResError == [IdleReq EXCEPT !.res = "error"]

ReqStart(r) ==
  /\ loop.pc # "boot"
  /\ reqs[r].pc = "idle"
  /\ \E ip \in BOOLEAN :
       reqs' = [reqs EXCEPT ![r] = [IdleReq EXCEPT !.pc = "readSheet", !.includePrice = ip]]
  /\ UNCHANGED <<now, store, inFlight, calls, loop, timers, memVars, mapVars>>

\* readSheetRows resolves with the sheet's records (identifiers from `sheet`);
\* upsertFromSheet builds its ops (lastSeenAt: new Date()) and, if there are any,
\* issues the bulkWrite; with no ops the handler goes on to Item.find.  The store
\* applies the write when it is issued and answers later; a bulkWrite that is going
\* to reject (ordered: false) has applied only part of its ops.
ReqSheetDone(r, sheet) ==
  /\ reqs[r].pc = "readSheet"
  /\ \E rows \in SUBSET sheet, ok \in BOOLEAN :
       \E applied \in SUBSET rows :
         /\ ok => applied = rows
         /\ ~ok => applied # rows
         /\ store' = UpsertAll(store, applied, now)
         /\ reqs' = IF rows = {}
                      THEN [reqs EXCEPT ![r].pc = "find"]
                      ELSE [reqs EXCEPT ![r].pc = "bulkWrite", ![r].rows = rows,
                                        ![r].bulkOk = ok]
  /\ UNCHANGED <<now, inFlight, calls, loop, timers, memVars, mapVars>>

\* readSheetRows rejects: the 500 response.
ReqSheetFail(r) ==
  /\ reqs[r].pc = "readSheet"
  /\ reqs' = [reqs EXCEPT ![r] = ResError]
  /\ UNCHANGED <<now, store, inFlight, calls, loop, timers, memVars, mapVars>>

\* the bulkWrite resolves: Item.find is issued
ReqBulkDone(r) ==
  /\ reqs[r].pc = "bulkWrite"
  /\ reqs[r].bulkOk
  /\ reqs' = [reqs EXCEPT ![r].pc = "find", ![r].rows = {}]
  /\ UNCHANGED <<now, store, inFlight, calls, loop, timers, memVars, mapVars>>

\* the bulkWrite rejects: the 500 response
ReqBulkFail(r) ==
  /\ reqs[r].pc = "bulkWrite"
  /\ ~reqs[r].bulkOk
  /\ reqs' = [reqs EXCEPT ![r] = ResError]
  /\ UNCHANGED <<now, store, inFlight, calls, loop, timers, memVars, mapVars>>

\* a handler that asks for the price in every refresh it fires
RECURSIVE FireAllWithPrice(_, _, _)
FireAllWithPrice(st, items, includePrice) ==
  IF items = <<>> THEN st
  ELSE LET r == RefreshOneIssue(st, Head(items), TRUE, TRUE, "request")
       IN FireAllWithPrice([calls |-> r.calls, inFlight |-> r.inFlight], Tail(items),
                           includePrice)

\* for (const it of items.slice(0, N)) refreshOne(...): not awaited
RECURSIVE FireAll(_, _, _)
FireAll(st, items, includePrice) ==
  IF items = <<>> THEN st
  ELSE LET r == RefreshOneIssue(st, Head(items), includePrice, TRUE, "request")
       IN FireAll([calls |-> r.calls, inFlight |-> r.inFlight], Tail(items), includePrice)

RECURSIVE CanFireAll(_, _)
CanFireAll(st, items) ==
  IF items = <<>> THEN TRUE
  ELSE /\ CanIssue(st, Head(items))
       /\ LET r == RefreshOneIssue(st, Head(items), FALSE, TRUE, "request")
          IN CanFireAll([calls |-> r.calls, inFlight |-> r.inFlight], Tail(items))

\* a handler that sends its response only once no refresh is in progress
ReqFindDoneAwaits(r) ==
  /\ reqs[r].pc = "find"
  /\ Active(calls) = {}
  /\ \A n \in DOMAIN store : ~NeedsImage(TRUE, store[n])
  /\ reqs' = [reqs EXCEPT ![r] = ResItems]
  /\ UNCHANGED <<now, store, inFlight, calls, loop, timers, memVars, mapVars>>

\* Item.find of the request resolves: the refreshes are fired, the response is sent.
ReqFindDone(r) ==
  /\ reqs[r].pc = "find"
  /\ \E items \in FindRecent(store, REQ_FIND_LIMIT) :
       LET st == [calls |-> calls, inFlight |-> inFlight]
       IN /\ CanFireAll(st, Take(items, N))
          /\ LET res == FireAll(st, Take(items, N), reqs[r].includePrice)
             IN /\ calls' = res.calls
                /\ inFlight' = res.inFlight
  /\ reqs' = [reqs EXCEPT ![r] = ResItems]
  /\ UNCHANGED <<now, store, loop, timers, memVars, mapVars>>

ReqFindFail(r) ==
  /\ reqs[r].pc = "find"
  /\ reqs' = [reqs EXCEPT ![r] = ResError]
  /\ UNCHANGED <<now, store, inFlight, calls, loop, timers, memVars, mapVars>>

\* ---------------------------------------------------------------- time
Tick ==
  /\ now < MaxTime
  /\ now' = now + 1
  /\ UNCHANGED <<dbVars, memVars, mapVars>>

\* ---------------------------------------------------------------- TTL caches (in-memory variant)
\* cacheGet with the expiry test off by one: an entry aged exactly the TTL is evicted
cacheGetEvictsAtTtl(key) ==
  IF key \notin DOMAIN imageCache
    THEN [value |-> NULLS, cache |-> imageCache]
    ELSE IF now - imageCache[key].ts >= CACHE_TTL_MS
      THEN [value |-> NULLS,
            cache |-> [k \in DOMAIN imageCache \ {key} |-> imageCache[k]]]
      ELSE [value |-> imageCache[key].imageUrl, cache |-> imageCache]

\* cacheGet that reports an expired entry as absent but forgets to delete it
cacheGetKeepsExpired(key) ==
  IF key \notin DOMAIN imageCache
    THEN [value |-> NULLS, cache |-> imageCache]
    ELSE IF now - imageCache[key].ts > CACHE_TTL_MS
      THEN [value |-> NULLS, cache |-> imageCache]
      ELSE [value |-> imageCache[key].imageUrl, cache |-> imageCache]

\* cacheGet(key): the value returned and the imageCache it leaves.
cacheGet(key) ==
  IF key \notin DOMAIN imageCache
    THEN [value |-> NULLS, cache |-> imageCache]
    ELSE IF now - imageCache[key].ts > CACHE_TTL_MS
      THEN [value |-> NULLS,
            cache |-> [k \in DOMAIN imageCache \ {key} |-> imageCache[k]]]
      ELSE [value |-> imageCache[key].imageUrl, cache |-> imageCache]

\* a cacheSet that keeps the entry a key already has
cacheSetKeepsFirst(key, imageUrl) ==
  [k \in DOMAIN imageCache \cup {key} |->
     IF k = key /\ k \notin DOMAIN imageCache
       THEN [imageUrl |-> imageUrl, ts |-> now] ELSE imageCache[k]]

\* cacheSet(key, imageUrl): the imageCache it leaves.
cacheSet(key, imageUrl) ==
  [k \in DOMAIN imageCache \cup {key} |->
     IF k = key THEN [imageUrl |-> imageUrl, ts |-> now] ELSE imageCache[k]]

priceCacheGet(key) ==
  IF key \notin DOMAIN priceCache
    THEN [value |-> NULLS, cache |-> priceCache]
    ELSE IF now - priceCache[key].ts > PRICE_TTL_MS
      THEN [value |-> NULLS,
            cache |-> [k \in DOMAIN priceCache \ {key} |-> priceCache[k]]]
      ELSE [value |-> priceCache[key].data, cache |-> priceCache]

priceCacheSet(key, data) ==
  [k \in DOMAIN priceCache \cup {key} |->
     IF k = key THEN [data |-> data, ts |-> now] ELSE priceCache[k]]

\* history kept for the properties: what a get saw and returned
NoGet ==
  [ kind |-> "none", key |-> "-", at |-> NoTime, value |-> NULLS,
    setAt |-> NoTime, setValue |-> NULLS, hadEntry |-> FALSE, hasEntry |-> FALSE ]

NoSet == [at |-> NoTime, value |-> NULLS]

\* lastSet keeps the last set of each cache and, as "imageResolved" and "priceStored",
\* the last resolution of a resolver that cached a value other than null
SetKinds == {"image", "price", "imageResolved", "priceStored"}

Resolved(kind, key, v) ==
  IF v = NULLS THEN lastSet[kind][key] ELSE [at |-> now, value |-> v]

GetRecord(kind, key, r, before) ==
  [ kind |-> kind, key |-> key, at |-> now, value |-> r.value,
    setAt |-> lastSet[kind][key].at, setValue |-> lastSet[kind][key].value,
    hadEntry |-> key \in DOMAIN before, hasEntry |-> key \in DOMAIN r.cache ]

CacheSetOp(key, v) ==
  /\ imageCache' = cacheSet(key, v)
  /\ lastSet' = [lastSet EXCEPT !["image"][key] = [at |-> now, value |-> v]]
  /\ UNCHANGED <<now, priceCache, lastGet, fetches, dbVars, mapVars>>

CacheGetOp(key) ==
  /\ imageCache' = cacheGet(key).cache
  /\ lastGet' = GetRecord("image", key, cacheGet(key), imageCache)
  /\ UNCHANGED <<now, priceCache, lastSet, fetches, dbVars, mapVars>>

PriceCacheSetOp(key, v) ==
  /\ priceCache' = priceCacheSet(key, v)
  /\ lastSet' = [lastSet EXCEPT !["price"][key] = [at |-> now, value |-> v]]
  /\ UNCHANGED <<now, imageCache, lastGet, fetches, dbVars, mapVars>>

PriceCacheGetOp(key) ==
  /\ priceCache' = priceCacheGet(key).cache
  /\ lastGet' = GetRecord("price", key, priceCacheGet(key), priceCache)
  /\ UNCHANGED <<now, imageCache, lastSet, fetches, dbVars, mapVars>>

\* ---------------------------------------------------------------- resolvers (in-memory variant)
\* a fetchSteamImage that sends the search request whatever the cache holds
FetchImageStartNoCache(f, key) ==
  /\ fetches[f].pc = "idle"
  /\ LET cached == cacheGet(key)
     IN /\ imageCache' = cached.cache
        /\ lastGet' = GetRecord("image", key, cached, imageCache)
        /\ fetches' = [fetches EXCEPT ![f] = [pc |-> "search", key |-> key, returned |-> "-", before |-> imageCache]]
  /\ UNCHANGED <<now, priceCache, lastSet, dbVars, mapVars>>

\* fetchSteamImage(key) up to its first await: the cache check, then the search request.
FetchImageStart(f, key) ==
  /\ fetches[f].pc = "idle"
  /\ LET cached == cacheGet(key)
     IN /\ imageCache' = cached.cache
        /\ lastGet' = GetRecord("image", key, cached, imageCache)
        /\ IF cached.value # NULLS
             THEN fetches' = [fetches EXCEPT ![f] = [IdleFetch EXCEPT !.returned = cached.value]]
             ELSE fetches' = [fetches EXCEPT ![f] = [pc |-> "search", key |-> key, returned |-> "-", before |-> imageCache]]
  /\ UNCHANGED <<now, priceCache, lastSet, dbVars, mapVars>>

\* the search response arrives and is parsed: a URL (Attempt A or B) or nothing
FetchImageDone(f) ==
  /\ fetches[f].pc = "search"
  /\ \E u \in ImageResults :
       /\ imageCache' = cacheSet(fetches[f].key, u)
       /\ lastSet' = [lastSet EXCEPT !["image"][fetches[f].key] = [at |-> now, value |-> u],
                                     !["imageResolved"][fetches[f].key] =
                                        Resolved("imageResolved", fetches[f].key, u)]
       /\ fetches' = [fetches EXCEPT ![f] = [IdleFetch EXCEPT !.returned = u]]
  /\ UNCHANGED <<now, priceCache, lastGet, dbVars, mapVars>>

\* a fetchSteamImage that caches null when its search request fails
FetchImageFailCachesNull(f) ==
  /\ fetches[f].pc = "search"
  /\ imageCache' = cacheSet(fetches[f].key, NULLS)
  /\ fetches' = [fetches EXCEPT ![f] = [IdleFetch EXCEPT !.returned = "threw"]]
  /\ UNCHANGED <<now, priceCache, lastSet, lastGet, dbVars, mapVars>>

\* the search request fails or answers with a non-success status
FetchImageFail(f) ==
  /\ fetches[f].pc = "search"
  /\ fetches' = [fetches EXCEPT ![f] = [IdleFetch EXCEPT !.returned = "threw"]]
  /\ UNCHANGED <<now, imageCache, priceCache, lastSet, lastGet, dbVars, mapVars>>

\* fetchSteamPrice(key) up to its first await
FetchPriceStart(f, key) ==
  /\ fetches[f].pc = "idle"
  /\ LET cached == priceCacheGet(key)
     IN /\ priceCache' = cached.cache
        /\ lastGet' = GetRecord("price", key, cached, priceCache)
        /\ IF cached.value # NULLS
             THEN fetches' = [fetches EXCEPT ![f] = [IdleFetch EXCEPT !.returned = cached.value]]
             ELSE fetches' = [fetches EXCEPT ![f] = [pc |-> "price", key |-> key, returned |-> "-", before |-> priceCache]]
  /\ UNCHANGED <<now, imageCache, lastSet, dbVars, mapVars>>

FetchPriceDone(f) ==
  /\ fetches[f].pc = "price"
  /\ \E j \in PriceResults :
       /\ priceCache' = priceCacheSet(fetches[f].key, j)
       /\ lastSet' = [lastSet EXCEPT !["price"][fetches[f].key] = [at |-> now, value |-> j],
                                     !["priceStored"][fetches[f].key] =
                                        Resolved("priceStored", fetches[f].key, j)]
       /\ fetches' = [fetches EXCEPT ![f] = [IdleFetch EXCEPT !.returned = j]]
  /\ UNCHANGED <<now, imageCache, lastGet, dbVars, mapVars>>

FetchPriceFail(f) ==
  /\ fetches[f].pc = "price"
  /\ fetches' = [fetches EXCEPT ![f] = [IdleFetch EXCEPT !.returned = "threw"]]
  /\ UNCHANGED <<now, imageCache, priceCache, lastSet, lastGet, dbVars, mapVars>>

\* ---------------------------------------------------------------- mapLimit
Min2(a, b) == IF a < b THEN a ELSE b

\* the transform fn applied to one item (its result, once it completes)
Transform(x) == IF x = "a" THEN "A" ELSE "B"

\* an item on which the transform fn rejects
FAILS == "x"

\* a pool with one worker per item
WorkerCountPerItem(limit, n) == n

\* Array.from({ length: Math.min(limit, items.length) }, worker)
WorkerCount(limit, n) == Min2(limit, n)

\* a result appended in completion order instead of stored at its index
StoreResultInCompletionOrder(results, my, v) ==
  [results EXCEPT ![Min({i \in 1..Len(results) : results[i] = EMPTY})] = v]

\* results[my] = await fn(items[my], my)
StoreResult(results, my, v) == [results EXCEPT ![my] = v]

\* mapLimit(items, includePrice ? 2 : 3, ...) of GET /api/items (in-memory variant)
RequestLimit(includePrice) == IF includePrice THEN 2 ELSE 3

NoMap ==
  [ pc |-> "none", caller |-> "-", includePrice |-> FALSE, items |-> <<>>, limit |-> 0,
    idx |-> 0, results |-> <<>>, workers |-> <<>>, order |-> <<>>, rejected |-> FALSE ]

MapCall(caller, includePrice, items, limit) ==
  [NoMap EXCEPT !.pc = "called", !.caller = caller, !.includePrice = includePrice,
                !.items = items, !.limit = limit]

SeqsUpTo(S, n) == UNION { [1..k -> S] : k \in 0..n }

\* mapLimit up to its await: the results array, the cursor, and the workers, each
\* of which runs up to its first await (claims an index and invokes fn).
MapStarted(m) ==
  LET n == Len(m.items)
      w == WorkerCount(m.limit, n)
  IN [m EXCEPT !.pc = "running",
               !.results = [i \in 1..n |-> EMPTY],
               !.idx = w,
               !.workers = [k \in 1..w |-> [pc |-> "await", my |-> k]]]

MapStart ==
  /\ ml.pc = "called"
  /\ ml' = MapStarted(ml)
  /\ UNCHANGED <<now, dbVars, memVars, mreq, norm>>

\* a worker that takes the next index without moving the cursor
WorkerDoneStaleCursor(m, k, v) ==
  LET my == m.workers[k].my
      res == StoreResult(m.results, my, v)
  IN IF m.idx < Len(m.items)
       THEN [m EXCEPT !.results = res, !.order = Append(@, my),
                      !.workers[k] = [pc |-> "await", my |-> m.idx + 1]]
       ELSE [m EXCEPT !.results = res, !.order = Append(@, my),
                      !.workers[k] = [pc |-> "done", my |-> my]]

\* fn of worker k resolves: the result is stored, the worker claims the next index
\* or ends
WorkerDone(m, k, v) ==
  LET my == m.workers[k].my
      res == StoreResult(m.results, my, v)
  IN IF m.idx < Len(m.items)
       THEN [m EXCEPT !.results = res, !.order = Append(@, my),
                      !.idx = @ + 1,
                      !.workers[k] = [pc |-> "await", my |-> m.idx + 1]]
       ELSE [m EXCEPT !.results = res, !.order = Append(@, my),
                      !.workers[k] = [pc |-> "done", my |-> my]]

TransformDone(k) ==
  /\ ml.pc = "running"
  /\ k \in DOMAIN ml.workers
  /\ ml.workers[k].pc = "await"
  /\ ml.items[ml.workers[k].my] # FAILS
  /\ ml' = WorkerDone(ml, k, Transform(ml.items[ml.workers[k].my]))
  /\ UNCHANGED <<now, dbVars, memVars, mreq, norm>>

\* a worker that catches the rejection of fn and goes on with the next index
WorkerFailedGoesOn(m, k) == [WorkerDone(m, k, EMPTY) EXCEPT !.rejected = TRUE]

\* fn of worker k rejects: the await throws, the worker's promise rejects and with it
\* Promise.all(workers) and mapLimit; the other workers run on
WorkerFailed(m, k) == [m EXCEPT !.workers[k].pc = "failed", !.rejected = TRUE]

TransformFail(k) ==
  /\ ml.pc = "running"
  /\ k \in DOMAIN ml.workers
  /\ ml.workers[k].pc = "await"
  /\ ml.items[ml.workers[k].my] = FAILS
  /\ ml' = WorkerFailed(ml, k)
  /\ UNCHANGED <<now, dbVars, memVars, mreq, norm>>

\* Promise.all(workers) resolves: mapLimit returns results
MapReturn ==
  /\ ml.pc = "running"
  /\ \A k \in DOMAIN ml.workers : ml.workers[k].pc = "done"
  /\ ml' = [ml EXCEPT !.pc = "returned"]
  /\ UNCHANGED <<now, dbVars, memVars, mreq, norm>>

InProgress ==
  Cardinality({ k \in DOMAIN ml.workers : ml.workers[k].pc \in {"await", "awaitPrice"} })

\* ---------------------------------------------------------------- sheet rows
\* A row is the sequence of cells parseCsvLine returns; r[i] of a cell the row does
\* not have is undefined.
UNDEFINED == "undefined"
Falsy(x) == x \in {"", UNDEFINED}
IDX_NAME == 1
IDX_WEAR == 2
Cell(r, i) == IF i <= Len(r) THEN r[i] ELSE UNDEFINED

\* String.prototype.trim: white space (blank, line feed, carriage return) off both ends
LF == "\n"
CR == "\r"
WhiteSpace == {" ", LF, CR}

RECURSIVE Trim(_)
Trim(str) ==
  IF str = "" THEN ""
  ELSE IF SubSeq(str, 1, 1) \in WhiteSpace THEN Trim(SubSeq(str, 2, Len(str)))
  ELSE IF SubSeq(str, Len(str), Len(str)) \in WhiteSpace
    THEN Trim(SubSeq(str, 1, Len(str) - 1))
  ELSE str

\* String.prototype.split(/\r?\n/): the pieces between line ends, of which there is
\* always at least one (the whole string, if it has no line end)
RECURSIVE SplitLoop(_, _, _, _)
SplitLoop(text, i, cur, out) ==
  IF i > Len(text) THEN Append(out, cur)
  ELSE LET ch == SubSeq(text, i, i)
       IN IF ch = LF THEN SplitLoop(text, i + 1, "", Append(out, cur))
          ELSE IF ch = CR /\ i < Len(text) /\ SubSeq(text, i + 1, i + 1) = LF
            THEN SplitLoop(text, i + 2, "", Append(out, cur))
          ELSE SplitLoop(text, i + 1, cur \o ch, out)

SplitLines(text) == SplitLoop(text, 1, "", <<>>)

\* the loop of parseCsvLine over the characters of a line: a quote toggles inQuotes
\* (a doubled quote inside quotes is one quote character), a comma outside quotes
\* ends the cell, any other character joins the cell
QUOTE == "\""
COMMA == ","
CharAt(line, i) == IF i <= Len(line) THEN SubSeq(line, i, i) ELSE UNDEFINED

\* a loop in which every quote toggles inQuotes
RECURSIVE CsvLoopNoEscape(_, _, _, _, _)
CsvLoopNoEscape(line, i, cur, inQuotes, out) ==
  IF i > Len(line) THEN Append(out, cur)
  ELSE LET ch == CharAt(line, i)
       IN IF ch = QUOTE THEN CsvLoopNoEscape(line, i + 1, cur, ~inQuotes, out)
          ELSE IF ch = COMMA /\ ~inQuotes
            THEN CsvLoopNoEscape(line, i + 1, "", inQuotes, Append(out, cur))
          ELSE CsvLoopNoEscape(line, i + 1, cur \o ch, inQuotes, out)

RECURSIVE CsvLoop(_, _, _, _, _)
CsvLoop(line, i, cur, inQuotes, out) ==
  IF i > Len(line) THEN Append(out, cur)
  ELSE LET ch == CharAt(line, i)
       IN IF ch = QUOTE
            THEN IF inQuotes /\ CharAt(line, i + 1) = QUOTE
                   THEN CsvLoop(line, i + 2, cur \o QUOTE, inQuotes, out)
                   ELSE CsvLoop(line, i + 1, cur, ~inQuotes, out)
          ELSE IF ch = COMMA /\ ~inQuotes
            THEN CsvLoop(line, i + 1, "", inQuotes, Append(out, cur))
          ELSE CsvLoop(line, i + 1, cur \o ch, inQuotes, out)

parseCsvLine(line) ==
  LET out == CsvLoop(line, 1, "", FALSE, <<>>)
  IN [ k \in 1..Len(out) |-> Trim(out[k]) ]

\* parseCsv: text.trim().split(/\r?\n/).map(parseCsvLine)
parseCsv(text) ==
  LET lines == SplitLines(Trim(text))
  IN [ k \in 1..Len(lines) |-> parseCsvLine(lines[k]) ]

\* a market name that always carries the wear
toMarketNameAlwaysWear(itemName, wear) ==
  Trim(itemName) \o " (" \o Trim(wear) \o ")"

\* toMarketName of the in-memory variant (server.js)
toMarketName(itemName, wear) ==
  IF Falsy(wear) THEN itemName
  ELSE Trim(itemName) \o " (" \o Trim(wear) \o ")"

\* body.filter((r) => r[IDX_NAME]).map(...) of the in-memory handler
RECURSIVE SheetItems(_)
SheetItems(body) ==
  IF body = <<>> THEN <<>>
  ELSE LET r == Head(body)
       IN IF Falsy(Cell(r, IDX_NAME)) THEN SheetItems(Tail(body))
          ELSE << [ row |-> r, name |-> Cell(r, IDX_NAME), wear |-> Cell(r, IDX_WEAR),
                    marketName |-> toMarketName(Cell(r, IDX_NAME), Cell(r, IDX_WEAR)) ] >>
               \o SheetItems(Tail(body))

\* toMarketName of the persistent variant: String(x || "").trim() of both cells
OrEmpty(x) == IF Falsy(x) THEN "" ELSE x

toMarketNamePersistent(itemName, wear) ==
  LET n == Trim(OrEmpty(itemName))
      w == Trim(OrEmpty(wear))
  IN IF w = "" THEN n ELSE n \o " (" \o w \o ")"

\* the loop of upsertFromSheet over the body: one updateOne per row with a name,
\* filtered by its marketName
RECURSIVE SheetOps(_)
SheetOps(body) ==
  IF body = <<>> THEN <<>>
  ELSE LET r == Head(body)
           name == Cell(r, IDX_NAME)
           wear == Cell(r, IDX_WEAR)
       IN IF Falsy(name) THEN SheetOps(Tail(body))
          ELSE << [ row |-> r, name |-> name, wear |-> wear,
                    marketName |-> toMarketNamePersistent(name, wear) ] >>
               \o SheetOps(Tail(body))

\* One sheet text normalised by both variants.  items and ops are the records of the
\* in-memory handler and of upsertFromSheet.
HeaderLine == "ItemName,Condition"
DataLines == { "", "a", "a,w", " a , w x ", ",w", "a, ", "\"a,b\",w", "a,\"\"\"w\"\"\"" }
RECURSIVE JoinLines(_)
JoinLines(lines) ==
  IF lines = <<>> THEN ""
  ELSE IF Len(lines) = 1 THEN lines[1]
  ELSE lines[1] \o LF \o JoinLines(Tail(lines))

\* the sheet texts: the empty text, blank texts, and a header line with data lines
Texts ==
  {"", " ", LF} \cup { JoinLines(<<HeaderLine>> \o body) : body \in SeqsUpTo(DataLines, MaxLines) }

NoNorm ==
  [ pc |-> "-", text |-> "", rows |-> <<>>, mem |-> FALSE, noRows |-> FALSE,
    items |-> <<>>, db |-> FALSE, ops |-> <<>> ]

NormParse ==
  /\ norm.pc = "text"
  /\ norm' = [norm EXCEPT !.pc = "rows", !.rows = parseCsv(norm.text)]
  /\ UNCHANGED <<now, dbVars, memVars, ml, mreq>>

NormItems ==
  /\ norm.pc = "rows"
  /\ ~norm.mem
  /\ norm' = IF Len(norm.rows) = 0
               THEN [norm EXCEPT !.mem = TRUE, !.noRows = TRUE]
               ELSE [norm EXCEPT !.mem = TRUE, !.items = SheetItems(Tail(norm.rows))]
  /\ UNCHANGED <<now, dbVars, memVars, ml, mreq>>

NormOps ==
  /\ norm.pc = "rows"
  /\ ~norm.db
  /\ norm' = IF Len(norm.rows) = 0
               THEN [norm EXCEPT !.db = TRUE]
               ELSE [norm EXCEPT !.db = TRUE, !.ops = SheetOps(Tail(norm.rows))]
  /\ UNCHANGED <<now, dbVars, memVars, ml, mreq>>

\* One line of quoted fields given to parseCsvLine.  The cells are the strings of up
\* to MaxCellLen characters over a letter, the comma, the quote and the blank; a line
\* holds no, one or two of them, each enclosed in quotes with its quotes doubled.
Alphabet == {"a", COMMA, QUOTE, " "}

RECURSIVE StrsUpTo(_)
StrsUpTo(n) ==
  IF n = 0 THEN {""}
  ELSE LET shorter == StrsUpTo(n - 1)
       IN shorter \cup { str \o ch : str \in shorter, ch \in Alphabet }

CellTexts == StrsUpTo(MaxCellLen)

RECURSIVE DoubleQuotes(_)
DoubleQuotes(str) ==
  IF str = "" THEN ""
  ELSE LET ch == SubSeq(str, 1, 1)
       IN (IF ch = QUOTE THEN QUOTE \o QUOTE ELSE ch) \o DoubleQuotes(SubSeq(str, 2, Len(str)))

QuotedField(cell) == QUOTE \o DoubleQuotes(cell) \o QUOTE

RECURSIVE QuotedLine(_)
QuotedLine(cells) ==
  IF cells = <<>> THEN ""
  ELSE IF Len(cells) = 1 THEN QuotedField(cells[1])
  ELSE QuotedField(cells[1]) \o COMMA \o QuotedLine(Tail(cells))

LineOf(cells) == [ pc |-> "line", cells |-> cells, line |-> QuotedLine(cells), out |-> <<>> ]

LineParse ==
  /\ norm.pc = "line"
  /\ norm' = [norm EXCEPT !.pc = "parsed", !.out = parseCsvLine(norm.line)]
  /\ UNCHANGED <<now, dbVars, memVars, ml, mreq>>

\* ---------------------------------------------------------------- numeric cells
\* A Number is <<"num", v>> with v in units of 10^-MaxNumLen, NaN, or null.
NullNum == <<"null", 0>>
NaN == <<"NaN", 0>>
Num(v) == <<"num", v>>

RECURSIVE Pow10(_)
Pow10(k) == IF k = 0 THEN 1 ELSE 10 * Pow10(k - 1)
Unit == Pow10(MaxNumLen)

DigitChars == {"0", "1", "2", "3", "4", "5", "6", "7", "8", "9"}
DigitValue(ch) ==
  CASE ch = "0" -> 0 [] ch = "1" -> 1 [] ch = "2" -> 2 [] ch = "3" -> 3 [] ch = "4" -> 4
    [] ch = "5" -> 5 [] ch = "6" -> 6 [] ch = "7" -> 7 [] ch = "8" -> 8 [] ch = "9" -> 9

\* str.replace(/[^0-9.\-]/g, "")
RECURSIVE StripNonNumeric(_)
StripNonNumeric(str) ==
  IF str = "" THEN ""
  ELSE LET ch == SubSeq(str, 1, 1)
           rest == StripNonNumeric(SubSeq(str, 2, Len(str)))
       IN IF ch \in DigitChars \cup {".", "-"} THEN ch \o rest ELSE rest

RECURSIVE DigitsValue(_)
DigitsValue(str) ==
  IF str = "" THEN 0
  ELSE 10 * DigitsValue(SubSeq(str, 1, Len(str) - 1)) + DigitValue(SubSeq(str, Len(str), Len(str)))

AllDigits(str) == \A i \in 1..Len(str) : SubSeq(str, i, i) \in DigitChars

\* Number(str) of a string of digits, points and minus signs: the empty string is 0;
\* an optional sign, then digits with at most one point and at least one digit, is
\* its decimal value; anything else is NaN
NumberOf(str) ==
  IF str = "" THEN Num(0)
  ELSE LET neg == SubSeq(str, 1, 1) = "-"
           body == IF neg THEN SubSeq(str, 2, Len(str)) ELSE str
           points == { i \in 1..Len(body) : SubSeq(body, i, i) = "." }
           p == IF points = {} THEN Len(body) + 1 ELSE CHOOSE i \in points : TRUE
           whole == SubSeq(body, 1, p - 1)
           frac == SubSeq(body, p + 1, Len(body))
           v == DigitsValue(whole) * Unit + DigitsValue(frac) * Pow10(MaxNumLen - Len(frac))
       IN IF Cardinality(points) > 1 \/ ~AllDigits(whole) \/ ~AllDigits(frac)
             \/ Len(whole) + Len(frac) = 0
            THEN NaN
            ELSE Num(IF neg THEN 0 - v ELSE v)

\* Number.isFinite(n) ? n : null
FiniteOrNull(n) == IF n = NaN THEN NullNum ELSE n

\* numOrNull of the persistent variant
numOrNull(x) ==
  LET s0 == Trim(IF x = UNDEFINED THEN "" ELSE x)
      str == StripNonNumeric(s0)
  IN IF s0 = "" THEN NullNum
     ELSE IF str \in {"", "-", ".", "-."} THEN NullNum
     ELSE FiniteOrNull(NumberOf(str))

\* Math.trunc
Trunc(v) == IF v >= 0 THEN (v \div Unit) * Unit ELSE 0 - (((0 - v) \div Unit) * Unit)

intOrNull(x) ==
  LET n == numOrNull(x)
  IN IF n = NullNum THEN NullNum ELSE Num(Trunc(n[2]))

\* sheetPrice of the in-memory handler:
\* Number(String(sheetPriceRaw ?? "").replace(/[^0-9.\-]/g, "")), finite or null
sheetPriceOf(sheetPriceRaw) ==
  FiniteOrNull(NumberOf(StripNonNumeric(IF sheetPriceRaw = UNDEFINED THEN "" ELSE sheetPriceRaw)))

\* moneyToNumber of the in-memory variant
moneyToNumber(x) ==
  IF Falsy(x) THEN NullNum
  ELSE FiniteOrNull(NumberOf(StripNonNumeric(x)))

\* One cell (or formatted upstream string) given to the numeric parsers: a string of
\* up to MaxNumLen characters over two digits, the point, the minus sign, a currency
\* sign and the blank, or a missing cell.
NumAlphabet == {"0", "7", ".", "-", "$", " "}

RECURSIVE NumStrsUpTo(_)
NumStrsUpTo(n) ==
  IF n = 0 THEN {""}
  ELSE LET shorter == NumStrsUpTo(n - 1)
       IN shorter \cup { str \o ch : str \in shorter, ch \in NumAlphabet }

NumCells == NumStrsUpTo(MaxNumLen) \cup {UNDEFINED}

CellOf(cell) ==
  [ pc |-> "cell", cell |-> cell,
    db |-> FALSE, sheetPrice |-> NullNum, floatValue |-> NullNum, paintSeed |-> NullNum,
    mem |-> FALSE, memSheetPrice |-> NullNum,
    priced |-> FALSE, steamLowest |-> NullNum ]

\* upsertFromSheet: the three numeric fields of a row
NumIngest ==
  /\ norm.pc = "cell"
  /\ ~norm.db
  /\ norm' = [norm EXCEPT !.db = TRUE, !.sheetPrice = numOrNull(norm.cell),
                          !.floatValue = numOrNull(norm.cell),
                          !.paintSeed = intOrNull(norm.cell)]
  /\ UNCHANGED <<now, dbVars, memVars, ml, mreq>>

\* the transform of the in-memory handler: sheetPrice
NumRequest ==
  /\ norm.pc = "cell"
  /\ ~norm.mem
  /\ norm' = [norm EXCEPT !.mem = TRUE, !.memSheetPrice = sheetPriceOf(norm.cell)]
  /\ UNCHANGED <<now, dbVars, memVars, ml, mreq>>

\* the transform of the in-memory handler: steamLowest = moneyToNumber(p.lowest_price)
NumMoney ==
  /\ norm.pc = "cell"
  /\ ~norm.priced
  /\ norm' = [norm EXCEPT !.priced = TRUE, !.steamLowest = moneyToNumber(norm.cell)]
  /\ UNCHANGED <<now, dbVars, memVars, ml, mreq>>

\* ---------------------------------------------------------------- image URLs
\* the end of the run of digits that starts at position i (i - 1 if there is none)
RECURSIVE DigitsEnd(_, _)
DigitsEnd(str, i) ==
  IF i <= Len(str) /\ SubSeq(str, i, i) \in DigitChars THEN DigitsEnd(str, i + 1) ELSE i - 1

\* /\/\d+fx\d+f/ matched at position i: the position of its last character, or 0
TokenEnd(str, i) ==
  LET d1 == DigitsEnd(str, i + 1)
      d2 == DigitsEnd(str, d1 + 3)
  IN IF /\ i <= Len(str) /\ SubSeq(str, i, i) = "/"
        /\ d1 >= i + 1
        /\ d1 + 2 <= Len(str) /\ SubSeq(str, d1 + 1, d1 + 2) = "fx"
        /\ d2 >= d1 + 3
        /\ d2 + 1 <= Len(str) /\ SubSeq(str, d2 + 1, d2 + 1) = "f"
       THEN d2 + 1
       ELSE 0

LARGE == "/360fx360f"

\* url.replace(/\/\d+fx\d+f/g, "/360fx360f"): every match, left to right
RECURSIVE ReplaceAllFrom(_, _)
ReplaceAllFrom(str, i) ==
  IF i > Len(str) THEN ""
  ELSE LET e == TokenEnd(str, i)
       IN IF e > 0 THEN LARGE \o ReplaceAllFrom(str, e + 1)
          ELSE SubSeq(str, i, i) \o ReplaceAllFrom(str, i + 1)

\* String(url).replace(/\/\d+fx\d+f$/, "/360fx360f"): the match that ends the string
ReplaceAtEnd(str) ==
  LET starts == { i \in 1..Len(str) : TokenEnd(str, i) = Len(str) }
  IN IF starts = {} THEN str
     ELSE LET i == CHOOSE j \in starts : \A k \in starts : j <= k
          IN SubSeq(str, 1, i - 1) \o LARGE

\* upgradeSteamImageSize of the in-memory variant (server.js)
upgradeSteamImageSize(url) ==
  IF url \in {NULLS, ""} THEN url ELSE ReplaceAtEnd(url)

\* upgradeSteamImageSize of the persistent variant
upgradeSteamImageSizePersistent(url) ==
  IF url \in {NULLS, ""} THEN url ELSE ReplaceAllFrom(url, 1)

\* One URL given to upgradeSteamImageSize: up to MaxPieces pieces, among them size
\* tokens, the large token and near misses of a token.
UrlPieces == {"h", "/62fx62f", "/9fx9f", LARGE, "/6fx", "/x", "6f"}

RECURSIVE Concat(_)
Concat(pieces) == IF pieces = <<>> THEN "" ELSE Head(pieces) \o Concat(Tail(pieces))

Urls == { Concat(pieces) : pieces \in SeqsUpTo(UrlPieces, MaxPieces) } \cup {NULLS}

UrlOf(url) ==
  [ pc |-> "url", url |-> url, mem |-> FALSE, once |-> NULLS, twice |-> NULLS,
    db |-> FALSE, dbOnce |-> NULLS, dbTwice |-> NULLS ]

UpgradeMem ==
  /\ norm.pc = "url"
  /\ ~norm.mem
  /\ LET once == upgradeSteamImageSize(norm.url)
     IN norm' = [norm EXCEPT !.mem = TRUE, !.once = once,
                             !.twice = upgradeSteamImageSize(once)]
  /\ UNCHANGED <<now, dbVars, memVars, ml, mreq>>

UpgradeDb ==
  /\ norm.pc = "url"
  /\ ~norm.db
  /\ LET once == upgradeSteamImageSizePersistent(norm.url)
     IN norm' = [norm EXCEPT !.db = TRUE, !.dbOnce = once,
                             !.dbTwice = upgradeSteamImageSizePersistent(once)]
  /\ UNCHANGED <<now, dbVars, memVars, ml, mreq>>

\* ---------------------------------------------------------------- image resolver
\* The parsed search response: data.assets as a tree of objects and data.results_html
\* as the src values of its img tags, in order.  A tree is its number of nodes, the
\* parent of each node but the root (node 1) and the icon_url_large and icon_url of
\* each node (undefined when the node has none or it is no string).  The children of
\* a node are its keys' values in key order; values that are no objects are pushed
\* and skipped when popped, so only the objects are kept here.
NoAssets == [ n |-> 0, parent |-> <<>>, large |-> <<>>, icon |-> <<>> ]

NodeName(i) == SubSeq("123456789", i, i)
LargeKinds == {"none", "empty", "relative"}
IconKinds == {"none", "relative", "absolute"}

LargeValue(i, kind) ==
  CASE kind = "none" -> UNDEFINED
    [] kind = "empty" -> ""
    [] kind = "relative" -> "l" \o NodeName(i)

IconValue(i, kind) ==
  CASE kind = "none" -> UNDEFINED
    [] kind = "relative" -> "i" \o NodeName(i)
    [] kind = "absolute" -> "http://i" \o NodeName(i)

Parents(n) ==
  { f \in [1..n -> 0..(n - 1)] : \A i \in 1..n : f[i] < i /\ (i > 1 => f[i] >= 1) }

\* the tree of n nodes with these parents and these kinds of icon fields; the tree
\* of no nodes is NoAssets
Tree(n, par, lk, ik) ==
  [ n |-> n, parent |-> par,
    large |-> [i \in 1..n |-> LargeValue(i, lk[i])],
    icon |-> [i \in 1..n |-> IconValue(i, ik[i])] ]

Htmls ==
  { <<>>, <<"/i/x.png">>, <<"/i/x.png", "https://a.steamstatic.com/y">>,
    <<"//a.steamstatic.com/y">>, <<"https://b/z?a=1&amp;b=2">> }

\* for (const k of Object.keys(node)) stack.push(node[k])
RECURSIVE KidsFrom(_, _, _)
KidsFrom(tree, node, i) ==
  IF i > tree.n THEN <<>>
  ELSE (IF tree.parent[i] = node THEN <<i>> ELSE <<>>) \o KidsFrom(tree, node, i + 1)

Kids(tree, node) == KidsFrom(tree, node, 1)

IsString(x) == x # UNDEFINED
Truthy(x) == ~Falsy(x)

\* Attempt A of the in-memory variant: a field counts when it is a non-empty string
RECURSIVE AttemptA(_, _, _)
AttemptA(tree, stack, visited) ==
  IF stack = <<>> THEN [ iconUrl |-> NULLS, visited |-> visited ]
  ELSE LET node == stack[Len(stack)]
           rest == SubSeq(stack, 1, Len(stack) - 1)
           seen == Append(visited, node)
       IN IF Truthy(tree.large[node]) /\ IsString(tree.large[node])
            THEN [ iconUrl |-> tree.large[node], visited |-> seen ]
          ELSE IF Truthy(tree.icon[node]) /\ IsString(tree.icon[node])
            THEN [ iconUrl |-> tree.icon[node], visited |-> seen ]
          ELSE AttemptA(tree, rest \o Kids(tree, node), seen)

\* Attempt A of the persistent variant: a field counts when it is a string
RECURSIVE AttemptAPersistent(_, _, _)
AttemptAPersistent(tree, stack, visited) ==
  IF stack = <<>> THEN [ iconUrl |-> NULLS, visited |-> visited ]
  ELSE LET node == stack[Len(stack)]
           rest == SubSeq(stack, 1, Len(stack) - 1)
           seen == Append(visited, node)
       IN IF IsString(tree.large[node])
            THEN [ iconUrl |-> tree.large[node], visited |-> seen ]
          ELSE IF IsString(tree.icon[node])
            THEN [ iconUrl |-> tree.icon[node], visited |-> seen ]
          ELSE AttemptAPersistent(tree, rest \o Kids(tree, node), seen)

\* const stack = [assets], if there are assets
StartStack(tree) == IF tree.n = 0 THEN <<>> ELSE <<1>>

StartsWith(str, prefix) ==
  Len(str) >= Len(prefix) /\ SubSeq(str, 1, Len(prefix)) = prefix

HasSub(str, sub, i) == i + Len(sub) - 1 <= Len(str) /\ SubSeq(str, i, i + Len(sub) - 1) = sub

\* [^"]+steamstatic[^"]+ matches the whole src
IsSteamStatic(src) ==
  \E i \in 2..Len(src) : HasSub(src, "steamstatic", i) /\ i + Len("steamstatic") <= Len(src)

\* html.match(first pattern) || html.match(second pattern): m[1], or null
RECURSIVE FirstSrc(_, _)
FirstSrc(srcs, steamOnly) ==
  IF srcs = <<>> THEN NULLS
  ELSE IF Head(srcs) # "" /\ (~steamOnly \/ IsSteamStatic(Head(srcs))) THEN Head(srcs)
  ELSE FirstSrc(Tail(srcs), steamOnly)

AttemptB(srcs) ==
  IF FirstSrc(srcs, TRUE) # NULLS THEN FirstSrc(srcs, TRUE) ELSE FirstSrc(srcs, FALSE)

\* replace(/&amp;/g, "&")
RECURSIVE ReplaceAmp(_)
ReplaceAmp(str) ==
  IF str = "" THEN ""
  ELSE IF HasSub(str, "&amp;", 1) THEN "&" \o ReplaceAmp(SubSeq(str, 6, Len(str)))
  ELSE SubSeq(str, 1, 1) \o ReplaceAmp(SubSeq(str, 2, Len(str)))

BASE == "https://community.cloudflare.steamstatic.com/economy/image/"
BASE_PERSISTENT == "https://community.fastly.steamstatic.com/economy/image/"

\* what fetchSteamImage makes of the parsed response, after Attempt A returned a:
\* the URL it resolves to (null if none), the strategy that gave it and the URL
\* that strategy produced
Resolve(a, srcs, base, persistent) ==
  LET upgrade(u) == IF persistent THEN upgradeSteamImageSizePersistent(u)
                    ELSE upgradeSteamImageSize(u)
      m == AttemptB(srcs)
  IN IF Truthy(a.iconUrl) /\ a.iconUrl # NULLS
       THEN [ done |-> TRUE, visited |-> a.visited, strategy |-> "A", produced |-> a.iconUrl,
              url |-> upgrade(IF StartsWith(a.iconUrl, "http") THEN a.iconUrl
                              ELSE base \o a.iconUrl) ]
     ELSE IF m # NULLS
       THEN [ done |-> TRUE, visited |-> a.visited, strategy |-> "B", produced |-> m,
              url |-> upgrade(ReplaceAmp(m)) ]
     ELSE [ done |-> TRUE, visited |-> a.visited, strategy |-> "none", produced |-> NULLS,
            url |-> NULLS ]

NotResolved ==
  [ done |-> FALSE, visited |-> <<>>, strategy |-> "-", produced |-> NULLS, url |-> NULLS ]

ResponseOf(tree, srcs) ==
  [ pc |-> "response", assets |-> tree, html |-> srcs, mem |-> NotResolved, db |-> NotResolved ]

ResolveMem ==
  /\ norm.pc = "response"
  /\ ~norm.mem.done
  /\ norm' = [norm EXCEPT !.mem = Resolve(AttemptA(norm.assets, StartStack(norm.assets), <<>>),
                                          norm.html, BASE, FALSE)]
  /\ UNCHANGED <<now, dbVars, memVars, ml, mreq>>

ResolveDb ==
  /\ norm.pc = "response"
  /\ ~norm.db.done
  /\ norm' = [norm EXCEPT !.db = Resolve(AttemptAPersistent(norm.assets, StartStack(norm.assets), <<>>),
                                         norm.html, BASE_PERSISTENT, TRUE)]
  /\ UNCHANGED <<now, dbVars, memVars, ml, mreq>>

\* ---------------------------------------------------------------- GET /api/items (in-memory)
HeaderRow == <<"ItemName", "Condition">>
DataRows == { <<"">>, <<"a", "w">>, <<"b">> }
Sheets == { <<HeaderRow>> \o body : body \in SeqsUpTo(DataRows, MaxRows) }

NoResponse == [kind |-> "-", hasHeader |-> FALSE, header |-> <<>>, items |-> <<>>]

\* failed is history: the lookups of this request that threw, as <<index, kind>>
IdleMemReq ==
  [ pc |-> "idle", includePrice |-> FALSE, rows |-> <<>>, failed |-> {}, res |-> NoResponse ]

\* moneyToNumber of the three fields of a priceoverview response
PriceFields(p) ==
  IF p = NULLS THEN [lowest |-> NoNum, median |-> NoNum, volume |-> NoNum]
  ELSE [lowest |-> 1, median |-> 1, volume |-> 1]

\* the object the transform returns for one record
Entry(it, imageUrl, pf) ==
  [ name |-> it.name, wear |-> it.wear, marketName |-> it.marketName, row |-> it.row,
    imageUrl |-> imageUrl,
    steamLowest |-> pf.lowest, steamMedian |-> pf.median, steamVolume |-> pf.volume ]

MemReqStart ==
  /\ mreq.pc = "idle"
  /\ \E ip \in BOOLEAN :
       mreq' = [IdleMemReq EXCEPT !.pc = "readSheet", !.includePrice = ip]
  /\ ml' = NoMap
  /\ UNCHANGED <<now, dbVars, memVars, norm>>

\* readSheetRows resolves: the records are built and mapLimit runs up to its await
MemSheetDone(sheets) ==
  /\ mreq.pc = "readSheet"
  /\ \E rows \in sheets :
       IF rows = <<>>
         THEN /\ mreq' = [mreq EXCEPT !.pc = "idle", !.res = [NoResponse EXCEPT !.kind = "items"]]
              /\ ml' = ml
         ELSE /\ mreq' = [mreq EXCEPT !.pc = "mapLimit", !.rows = rows]
              /\ ml' = MapStarted(MapCall("items", mreq.includePrice, SheetItems(Tail(rows)),
                                          RequestLimit(mreq.includePrice)))
  /\ UNCHANGED <<now, dbVars, memVars, norm>>

\* a handler that answers a failed sheet read with an empty items payload
MemSheetFailAnswersItems ==
  /\ mreq.pc = "readSheet"
  /\ mreq' = [mreq EXCEPT !.pc = "idle", !.res = [NoResponse EXCEPT !.kind = "items"]]
  /\ UNCHANGED <<now, dbVars, memVars, ml, norm>>

\* readSheetRows throws: the catch of the handler
MemSheetFail ==
  /\ mreq.pc = "readSheet"
  /\ mreq' = [mreq EXCEPT !.pc = "idle", !.res = [NoResponse EXCEPT !.kind = "error"]]
  /\ UNCHANGED <<now, dbVars, memVars, ml, norm>>

\* the transform after its image lookup: the price lookup when prices are included,
\* else the entry is returned
AfterImage(k, imageUrl) ==
  IF ml.includePrice
    THEN [ml EXCEPT !.workers[k] = [pc |-> "awaitPrice", my |-> ml.workers[k].my,
                                    imageUrl |-> imageUrl]]
    ELSE WorkerDone(ml, k, Entry(ml.items[ml.workers[k].my], imageUrl, PriceFields(NULLS)))

AwaitsImage(k) ==
  /\ mreq.pc = "mapLimit"
  /\ ml.pc = "running"
  /\ k \in DOMAIN ml.workers
  /\ ml.workers[k].pc = "await"

AwaitsPrice(k) ==
  /\ mreq.pc = "mapLimit"
  /\ ml.pc = "running"
  /\ k \in DOMAIN ml.workers
  /\ ml.workers[k].pc = "awaitPrice"

EnrichImageDone(k) ==
  /\ AwaitsImage(k)
  /\ \E v \in ImageResults : ml' = AfterImage(k, v)
  /\ UNCHANGED <<now, dbVars, memVars, mreq, norm>>

\* an image lookup that rejects the whole batch
EnrichImageFailRejects(k) ==
  /\ AwaitsImage(k)
  /\ mreq' = [mreq EXCEPT !.pc = "idle", !.res = [NoResponse EXCEPT !.kind = "error"],
                          !.failed = @ \cup {<<ml.workers[k].my, "image">>}]
  /\ ml' = [ml EXCEPT !.pc = "returned"]
  /\ UNCHANGED <<now, dbVars, memVars, norm>>

\* fetchSteamImage throws: catch { imageUrl = null }
EnrichImageFail(k) ==
  /\ AwaitsImage(k)
  /\ ml' = AfterImage(k, NULLS)
  /\ mreq' = [mreq EXCEPT !.failed = @ \cup {<<ml.workers[k].my, "image">>}]
  /\ UNCHANGED <<now, dbVars, memVars, norm>>

EnrichPriceDone(k) ==
  /\ AwaitsPrice(k)
  /\ \E p \in PriceResults :
       ml' = WorkerDone(ml, k, Entry(ml.items[ml.workers[k].my], ml.workers[k].imageUrl,
                                    PriceFields(p)))
  /\ UNCHANGED <<now, dbVars, memVars, mreq, norm>>

\* fetchSteamPrice throws: the steam fields stay null
EnrichPriceFail(k) ==
  /\ AwaitsPrice(k)
  /\ ml' = WorkerDone(ml, k, Entry(ml.items[ml.workers[k].my], ml.workers[k].imageUrl,
                                   PriceFields(NULLS)))
  /\ mreq' = [mreq EXCEPT !.failed = @ \cup {<<ml.workers[k].my, "price">>}]
  /\ UNCHANGED <<now, dbVars, memVars, norm>>

\* Promise.all(workers) resolves, mapLimit returns: res.json({ header, items: enriched })
MemMapReturn ==
  /\ mreq.pc = "mapLimit"
  /\ ml.pc = "running"
  /\ \A k \in DOMAIN ml.workers : ml.workers[k].pc = "done"
  /\ ml' = [ml EXCEPT !.pc = "returned"]
  /\ mreq' = [mreq EXCEPT !.pc = "idle",
                          !.res = [kind |-> "items", hasHeader |-> TRUE,
                                   header |-> Head(mreq.rows), items |-> ml.results]]
  /\ UNCHANGED <<now, dbVars, memVars, norm>>

\* ---------------------------------------------------------------- specification
InitDb ==
  /\ store = <<>>
  /\ inFlight = {}
  /\ calls = [c \in CallIds |-> FreeCall]
  /\ loop = [pc |-> "boot", cand |-> <<>>, idx |-> 0]
  /\ timers = 0
  /\ reqs = [r \in ReqIds |-> IdleReq]

InitMem ==
  /\ imageCache = <<>>
  /\ priceCache = <<>>
  /\ lastSet = [kind \in SetKinds |-> [k \in Keys |-> NoSet]]
  /\ lastGet = NoGet
  /\ fetches = [f \in FetchIds |-> IdleFetch]

InitMap == ml = NoMap /\ mreq = IdleMemReq /\ norm = NoNorm

Init == now = 0 /\ InitDb /\ InitMem /\ InitMap

CallStep(c) ==
  \/ FindOneDone(c)
  \/ FindOneFail(c)
  \/ ImageFetchDone(c)
  \/ ImageFetchFail(c)
  \/ ImageWriteDone(c)
  \/ ImageWriteFail(c)
  \/ ImageErrWriteDone(c)
  \/ ImageErrWriteFail(c)
  \/ PriceWriteDone(c)
  \/ PriceWriteFail(c)
  \/ PriceErrWriteDone(c)
  \/ PriceErrWriteFail(c)

OneName == {"n1"}

ReqStep(r) ==
  \/ ReqStart(r)
  \/ ReqSheetDone(r, OneName)
  \/ ReqSheetFail(r)
  \/ ReqBulkDone(r)
  \/ ReqBulkFail(r)
  \/ ReqFindDone(r)
  \/ ReqFindFail(r)

LoopStep == Listen \/ LoopTimer \/ LoopFindDone \/ LoopFindFail

\* The persistent variant serving a sheet with one identifier: requests, the
\* background loop, every refreshOne step, store and upstream failures, the clock.
Next ==
  \/ Tick
  \/ LoopStep
  \/ \E c \in CallIds : CallStep(c)
  \/ \E r \in ReqIds : ReqStep(r)

Spec == Init /\ [][Next]_vars

\* The background loop alone over a store that already holds records (of an
\* earlier run), with every awaited operation eventually completing or failing.
InitLoop ==
  /\ now = 0
  /\ store \in { UpsertAll(<<>>, S, 0) : S \in SUBSET Names }
  /\ inFlight = {}
  /\ calls = [c \in CallIds |-> FreeCall]
  /\ loop = [pc |-> "boot", cand |-> <<>>, idx |-> 0]
  /\ timers = 0
  /\ reqs = [r \in ReqIds |-> IdleReq]
  /\ InitMem
  /\ InitMap

LoopNext ==
  \/ LoopStep
  \/ \E c \in CallIds : CallStep(c)

SpecLoop ==
  /\ InitLoop
  /\ [][LoopNext]_vars
  /\ WF_vars(LoopStep)
  /\ \A c \in CallIds : WF_vars(CallStep(c))

\* The background loop over a store larger than its scan limit: every record was
\* seen by an earlier or by the latest ingest, and is either as inserted or as left
\* by a complete refresh at the present time.
RefreshedDoc(seenAt, at) ==
  PriceSuccessSet(ImageSuccessSet(NewDoc(seenAt), "u1", at), fetchSteamPrice("-"), at)

ScanRecent == { {"n1"}, {"n1", "n2", "n3"} }   \* the records of the latest ingest
ScanFresh == {"n1"}                            \* the records that may be refreshed already

InitScan ==
  /\ now = 1
  /\ \E recent \in ScanRecent, fresh \in SUBSET ScanFresh :
       store = [n \in ScanNames |->
                  LET seenAt == IF n \in recent THEN 1 ELSE 0
                  IN IF n \in fresh THEN RefreshedDoc(seenAt, now) ELSE NewDoc(seenAt)]
  /\ inFlight = {}
  /\ calls = [c \in CallIds |-> FreeCall]
  /\ loop = [pc |-> "boot", cand |-> <<>>, idx |-> 0]
  /\ timers = 0
  /\ reqs = [r \in ReqIds |-> IdleReq]
  /\ InitMem
  /\ InitMap

SpecScan == InitScan /\ [][LoopNext]_vars

\* The request path alone, between two cycles of the loop, serving a sheet with one
\* identifier.  The sheet source and the store answer the handler's operations in
\* the end; nothing is assumed of the operations of refreshOne, whose upstream may
\* never answer.
InitServe ==
  /\ now = 0
  /\ store = <<>>
  /\ inFlight = {}
  /\ calls = [c \in CallIds |-> FreeCall]
  /\ loop = IdleLoop
  /\ timers = 1
  /\ reqs = [r \in ReqIds |-> IdleReq]
  /\ InitMem
  /\ InitMap

ServeStep(r) ==
  \/ ReqStart(r)
  \/ ReqSheetDone(r, OneName)
  \/ ReqSheetFail(r)
  \/ ReqBulkDone(r)
  \/ ReqBulkFail(r)
  \/ ReqFindDone(r)
  \/ ReqFindFail(r)

ServeNext ==
  \/ \E r \in ReqIds : ServeStep(r)
  \/ \E c \in CallIds : CallStep(c)

SpecServe ==
  /\ InitServe
  /\ [][ServeNext]_vars
  /\ \A r \in ReqIds :
       /\ WF_vars(ReqSheetDone(r, OneName))
       /\ WF_vars(ReqBulkDone(r) \/ ReqBulkFail(r))
       /\ WF_vars(ReqFindDone(r))

\* GET /api/items of the in-memory variant, one request at a time, over every sheet
\* of up to MaxRows data rows and every outcome of every lookup.
ItemsNext ==
  \/ MemReqStart
  \/ MemSheetDone(Sheets)
  \/ MemSheetFail
  \/ \E k \in 1..MaxLimit : EnrichImageDone(k)
  \/ \E k \in 1..MaxLimit : EnrichImageFail(k)
  \/ \E k \in 1..MaxLimit : EnrichPriceDone(k)
  \/ \E k \in 1..MaxLimit : EnrichPriceFail(k)
  \/ MemMapReturn

SpecItems == Init /\ [][ItemsNext]_vars

\* Both variants serving requests side by side, each over a sheet with at most one
\* data row, with every failure of the sheet source, of the store and of the lookups.
OneRowSheets == { <<HeaderRow>> \o body : body \in SeqsUpTo(DataRows, 1) }

BothNext ==
  \/ \E r \in ReqIds : ServeStep(r)
  \/ \E c \in CallIds : CallStep(c)
  \/ MemReqStart
  \/ MemSheetDone(OneRowSheets)
  \/ MemSheetFail
  \/ \E k \in 1..MaxLimit : EnrichImageDone(k)
  \/ \E k \in 1..MaxLimit : EnrichImageFail(k)
  \/ \E k \in 1..MaxLimit : EnrichPriceDone(k)
  \/ \E k \in 1..MaxLimit : EnrichPriceFail(k)
  \/ MemMapReturn

SpecBoth == InitServe /\ [][BothNext]_vars

\* Ingests of every sheet over two identifiers into a store that holds records of an
\* earlier time, with the refreshes the requests trigger.
IngestStep(r) ==
  \/ ReqStart(r)
  \/ ReqSheetDone(r, Names)
  \/ ReqSheetFail(r)
  \/ ReqBulkDone(r)
  \/ ReqBulkFail(r)
  \/ ReqFindDone(r)
  \/ ReqFindFail(r)

\* the steps of a refreshOne whose store and upstream operations all succeed
RefreshStep(c) ==
  \/ FindOneDone(c)
  \/ ImageFetchDone(c)
  \/ ImageWriteDone(c)
  \/ PriceWriteDone(c)

IngestNext ==
  \/ \E r \in ReqIds : IngestStep(r)
  \/ \E c \in CallIds : RefreshStep(c)

InitIngest ==
  /\ now = 1
  /\ store \in { UpsertAll(<<>>, S, 0) : S \in SUBSET Names }
  /\ inFlight = {}
  /\ calls = [c \in CallIds |-> FreeCall]
  /\ loop = IdleLoop
  /\ timers = 1
  /\ reqs = [r \in ReqIds |-> IdleReq]
  /\ InitMem
  /\ InitMap

SpecIngest == InitIngest /\ [][IngestNext]_vars

\* The background loop when every store operation and every upstream call succeeds,
\* over a store of more records than the candidate cap, each seen at a time of its
\* own; every awaited operation completes in the end and the timer fires.
CapNames == {"n1", "n2", "n3"}

InitCap ==
  /\ now = 0
  /\ \E seen \in [CapNames -> 0..(Cardinality(CapNames) - 1)] :
       /\ \A m, n \in CapNames : m # n => seen[m] # seen[n]
       /\ store = [n \in CapNames |-> NewDoc(seen[n])]
  /\ inFlight = {}
  /\ calls = [c \in CallIds |-> FreeCall]
  /\ loop = [pc |-> "boot", cand |-> <<>>, idx |-> 0]
  /\ timers = 0
  /\ reqs = [r \in ReqIds |-> IdleReq]
  /\ InitMem
  /\ InitMap

LoopOkStep == Listen \/ LoopTimer \/ LoopFindDone

CapNext ==
  \/ Tick
  \/ LoopOkStep
  \/ \E c \in CallIds : RefreshStep(c)

SpecCap ==
  /\ InitCap
  /\ [][CapNext]_vars
  /\ WF_vars(Tick)
  /\ WF_vars(LoopOkStep)
  /\ \A c \in CallIds : WF_vars(RefreshStep(c))

\* The request path over a store of more records than a request refreshes, each
\* seen at a time of its own; the sheet has no data rows, so that the records keep
\* their ranks.  The image part of a refresh succeeds; its price write may fail.
InitFire ==
  /\ now = 0
  /\ \E seen \in [CapNames -> 0..(Cardinality(CapNames) - 1)] :
       /\ \A m, n \in CapNames : m # n => seen[m] # seen[n]
       /\ store = [n \in CapNames |-> NewDoc(seen[n])]
  /\ inFlight = {}
  /\ calls = [c \in CallIds |-> FreeCall]
  /\ loop = IdleLoop
  /\ timers = 1
  /\ reqs = [r \in ReqIds |-> IdleReq]
  /\ InitMem
  /\ InitMap

FireStep(r) ==
  \/ ReqStart(r)
  \/ ReqSheetDone(r, {})
  \/ ReqSheetFail(r)
  \/ ReqFindDone(r)
  \/ ReqFindFail(r)

FireNext ==
  \/ \E r \in ReqIds : FireStep(r)
  \/ \E c \in CallIds : RefreshStep(c)
  \/ \E c \in CallIds : PriceWriteFail(c)
  \/ \E c \in CallIds : PriceErrWriteDone(c)
  \/ \E c \in CallIds : PriceErrWriteFail(c)

SpecFire == InitFire /\ [][FireNext]_vars

\* The normalisation of one sheet text: any text of the bounded set, parsed, then
\* turned into records by each variant.
InitNorm ==
  /\ now = 0
  /\ InitDb
  /\ InitMem
  /\ ml = NoMap
  /\ mreq = IdleMemReq
  /\ \E text \in Texts : norm = [NoNorm EXCEPT !.pc = "text", !.text = text]

NormNext == NormParse \/ NormItems \/ NormOps

SpecNorm == InitNorm /\ [][NormNext]_vars

\* parseCsvLine applied to one line of quoted fields.
InitLine ==
  /\ now = 0
  /\ InitDb
  /\ InitMem
  /\ ml = NoMap
  /\ mreq = IdleMemReq
  /\ \E c \in CellTexts, d \in CellTexts, len \in 0..2 :
       norm = LineOf(SubSeq(<<c, d>>, 1, len))

LineNext == LineParse

SpecLine == InitLine /\ [][LineNext]_vars

\* The numeric parsers applied to one cell.
InitNum ==
  /\ now = 0
  /\ InitDb
  /\ InitMem
  /\ ml = NoMap
  /\ mreq = IdleMemReq
  /\ \E cell \in NumCells : norm = CellOf(cell)

NumNext == NumIngest \/ NumRequest \/ NumMoney

SpecNum == InitNum /\ [][NumNext]_vars

\* upgradeSteamImageSize of both variants applied to one URL, once and twice.
InitUrl ==
  /\ now = 0
  /\ InitDb
  /\ InitMem
  /\ ml = NoMap
  /\ mreq = IdleMemReq
  /\ \E url \in Urls : norm = UrlOf(url)

UrlNext == UpgradeMem \/ UpgradeDb

SpecUrl == InitUrl /\ [][UrlNext]_vars

\* The image resolvers of both variants applied to one parsed search response.
InitResolve ==
  /\ now = 0
  /\ InitDb
  /\ InitMem
  /\ ml = NoMap
  /\ mreq = IdleMemReq
  /\ \E n \in 0..MaxNodes, srcs \in Htmls :
       \E par \in Parents(n), lk \in [1..n -> LargeKinds], ik \in [1..n -> IconKinds] :
         norm = ResponseOf(Tree(n, par, lk, ik), srcs)

ResolveNext == ResolveMem \/ ResolveDb

SpecResolve == InitResolve /\ [][ResolveNext]_vars

\* The two TTL caches of the in-memory variant under every sequence of gets and sets.
CacheNext ==
  \/ Tick
  \/ \E k \in Keys, v \in ImageResults : CacheSetOp(k, v)
  \/ \E k \in Keys : CacheGetOp(k)
  \/ \E k \in Keys, v \in PriceResults : PriceCacheSetOp(k, v)
  \/ \E k \in Keys : PriceCacheGetOp(k)

SpecCache == Init /\ [][CacheNext]_vars

\* The resolvers of the in-memory variant, called concurrently, over the two caches.
MemNext ==
  \/ Tick
  \/ \E f \in FetchIds, k \in Keys : FetchImageStart(f, k)
  \/ \E f \in FetchIds : FetchImageDone(f)
  \/ \E f \in FetchIds : FetchImageFail(f)
  \/ \E f \in FetchIds, k \in Keys : FetchPriceStart(f, k)
  \/ \E f \in FetchIds : FetchPriceDone(f)
  \/ \E f \in FetchIds : FetchPriceFail(f)

SpecMem == Init /\ [][MemNext]_vars

\* One mapLimit call: any items, called with any limit >= 1 or by GET /api/items of
\* the in-memory variant; the transforms complete in any order.
InitMapCall ==
  /\ now = 0
  /\ InitDb
  /\ InitMem
  /\ mreq = IdleMemReq
  /\ norm = NoNorm
  /\ \E items \in SeqsUpTo(ItemVals, MaxItems) :
       \/ \E limit \in 1..MaxLimit : ml = MapCall("direct", FALSE, items, limit)
       \/ \E ip \in BOOLEAN : ml = MapCall("request", ip, items, RequestLimit(ip))

MapNext ==
  \/ MapStart
  \/ \E k \in 1..MaxItems : TransformDone(k)
  \/ MapReturn

SpecMap == InitMapCall /\ [][MapNext]_vars

\* One mapLimit call with a transform that rejects on at most one of the items.
FailingAt(items) == { i \in 1..Len(items) : items[i] = FAILS }

InitMapFail ==
  /\ now = 0
  /\ InitDb
  /\ InitMem
  /\ mreq = IdleMemReq
  /\ norm = NoNorm
  /\ \E items \in SeqsUpTo(ItemVals \cup {FAILS}, MaxItems), limit \in 1..MaxLimit :
       /\ Cardinality(FailingAt(items)) <= 1
       /\ ml = MapCall("direct", FALSE, items, limit)

MapFailNext ==
  \/ MapStart
  \/ \E k \in 1..MaxItems : TransformDone(k)
  \/ \E k \in 1..MaxItems : TransformFail(k)
  \/ MapReturn

SpecMapFail == InitMapFail /\ [][MapFailNext]_vars

\* ================================================================ properties
Ttl(kind) == IF kind = "image" THEN CACHE_TTL_MS ELSE PRICE_TTL_MS

GetAfterSet == lastGet.kind # "none" /\ lastGet.setAt # NoTime

\* C2: a get of a key issued no later than TTL after the key's last set returns the
\* value that was set, for the image cache and the price cache, null included.
C2_GetWithinTtlReturnsSetValue ==
  (GetAfterSet /\ lastGet.at - lastGet.setAt <= Ttl(lastGet.kind))
    => lastGet.value = lastGet.setValue

\* a get of the image cache exactly TTL after a set of null
C2_Witness ==
  /\ lastGet.kind = "image"
  /\ lastGet.setAt # NoTime
  /\ lastGet.at - lastGet.setAt = CACHE_TTL_MS
  /\ lastGet.setValue = NULLS
  /\ lastGet.value = NULLS

\* C3: a get issued more than TTL after the key's last set returns absent and leaves
\* no entry for the key (so does every later get until the next set), and an entry
\* leaves a cache only in a step that is such a get of that key.
EvictedBy(kind, key, cache) ==
  /\ lastGet'.kind = kind
  /\ lastGet'.key = key
  /\ lastGet'.at = now
  /\ lastGet'.hadEntry
  /\ now - cache[key].ts > Ttl(kind)

C3_ExpiredGetEvicts ==
  /\ []((GetAfterSet /\ lastGet.at - lastGet.setAt > Ttl(lastGet.kind))
          => (lastGet.value = NULLS /\ ~lastGet.hasEntry))
  /\ [][ /\ \A k \in DOMAIN imageCache :
              k \notin DOMAIN imageCache' => EvictedBy("image", k, imageCache)
         /\ \A k \in DOMAIN priceCache :
              k \notin DOMAIN priceCache' => EvictedBy("price", k, priceCache) ]_vars

\* a get of a key whose expired entry (a non-null value) an earlier get has evicted
C3_Witness ==
  /\ GetAfterSet
  /\ lastGet.at - lastGet.setAt > Ttl(lastGet.kind)
  /\ lastGet.setValue # NULLS
  /\ ~lastGet.hadEntry
  /\ lastGet.value = NULLS

\* C4: once a null result is cached for a key, no fetchSteamImage of that key sends
\* a search request while the cached null is within the image TTL.
CachedNullFresh(key) ==
  /\ key \in DOMAIN imageCache
  /\ imageCache[key].imageUrl = NULLS
  /\ now - imageCache[key].ts <= CACHE_TTL_MS

C4_CachedNullNotRequeried ==
  [][ \A f \in FetchIds :
        (fetches[f].pc = "idle" /\ fetches'[f].pc = "search")
          => ~CachedNullFresh(fetches'[f].key) ]_vars

\* C6: what mapLimit returns has one slot per item, and slot i holds the transform's
\* result for items[i], whatever the order in which the transforms completed.
C6_ResultsInInputOrder ==
  ml.pc = "returned" =>
    /\ Len(ml.results) = Len(ml.items)
    /\ \A i \in 1..Len(ml.items) : ml.results[i] = Transform(ml.items[i])

\* a call over differing items has returned after its transforms completed out of
\* input order
C6_Witness ==
  /\ ml.pc = "returned"
  /\ Len(ml.items) >= 3
  /\ ml.items[1] # ml.items[2]
  /\ \E i, j \in 1..Len(ml.order) : i < j /\ ml.order[i] > ml.order[j]

\* C7: at most min(limit, N) transforms are in progress at any time, so at most 3
\* (2 with price enrichment) for a GET /api/items of the in-memory variant.
C7_BoundedInProgress ==
  /\ InProgress <= Min2(ml.limit, Len(ml.items))
  /\ ml.caller = "request" => InProgress <= (IF ml.includePrice THEN 2 ELSE 3)

\* a request without price enrichment over more than 3 records runs 3 at once while
\* records are still waiting
C7_Witness ==
  /\ ml.caller = "request"
  /\ ~ml.includePrice
  /\ Len(ml.items) > 3
  /\ InProgress = 3
  /\ ml.idx < Len(ml.items)

\* ---------------------------------------------------------------- persistent variant
Finishing(c) == calls[c].pc # "free" /\ calls[c].name \notin inFlight'

\* C1 (as amended): of two overlapping triggers for one identifier exactly one passes
\* the in-flight guard, so no two refreshOne calls for one identifier are in progress
\* together, and while a call is in progress at most one image upstream call is made
\* for its identifier.
C1_GuardAtMostOneImageCall ==
  /\ \A c, d \in Active(calls) : c # d => calls[c].name # calls[d].name
  /\ \A c \in Active(calls) : calls[c].name \in inFlight /\ calls[c].imageCalls <= 1

\* a call that another trigger overlapped has made its image upstream call
C1_Witness ==
  \E c \in Active(calls) : calls[c].overlapped /\ calls[c].imageCalls = 1

\* C1 (as stated): a refreshOne that another trigger for the same identifier
\* overlapped, and that ran without a store failure, ends with exactly one image
\* upstream call made for the identifier.
C1_ExactlyOneImageCall ==
  [][ \A c \in CallIds :
        (Finishing(c) /\ calls[c].overlapped /\ ~FindOneFail(c))
          => calls[c].imageCalls = 1 ]_vars

\* C5: no image upstream call is issued for a record whose stored image is a
\* confirmed-absent result (imageUrl null, imageUpdatedAt set) younger than IMAGE_TTL_MS.
C5_NullImageNotRequeried ==
  [][ \A c \in CallIds :
        (calls[c].pc = "findOne" /\ calls'[c].pc = "fetchImage")
          => LET n == calls'[c].name
             IN ~( /\ n \in DOMAIN store
                   /\ store[n].imageUrl = NULLS
                   /\ store[n].imageUpdatedAt # NoTime
                   /\ now - store[n].imageUpdatedAt <= IMAGE_TTL_MS ) ]_vars

\* C8: the step of refreshOne that follows a failed image resolution changes nothing
\* in the store but imageError of that record (set to the diagnostic string), and
\* leaves the record without image or stale; the step that follows a failed price
\* resolution changes nothing but steamError.
C8_FailureWritesOnlyError ==
  [][ \A c \in CallIds :
        LET n == calls[c].name
        IN /\ (calls[c].pc = "updImageErr" /\ calls'[c].pc # "updImageErr")
                => /\ \/ store' = store
                      \/ store' = [store EXCEPT ![n].imageError = "err"]
                   /\ \/ store'[n].imageUrl = NULLS
                      \/ store'[n].imageUpdatedAt = NoTime
                      \/ now' - store'[n].imageUpdatedAt > IMAGE_TTL_MS
           /\ (calls[c].pc = "updPriceErr" /\ calls'[c].pc # "updPriceErr")
                => \/ store' = store
                   \/ store' = [store EXCEPT ![n].steamError = "err"] ]_vars

\* a record keeps its earlier image and price stamps next to both error strings
C8_Witness ==
  \E n \in DOMAIN store :
    /\ store[n].imageError = "err"
    /\ store[n].imageUrl # NULLS
    /\ store[n].steamError = "err"
    /\ store[n].steamUpdatedAt # NoTime

InImagePart(c) == calls[c].pc \in {"updImage", "updImageErr"}

WantsPrice(c) == calls[c].refreshPrice /\ isStale(calls[c].dSteamAt, PRICE_TTL_MS)

CycleRunning == loop.pc \in {"scanning", "refreshing"}

C10_LoopAlwaysReschedules ==
  /\ [][ (CycleRunning /\ loop'.pc = "idle") => timers' = timers + 1 ]_vars
  /\ [](timers = IF loop.pc = "idle" THEN 1 ELSE 0)
  /\ []<>(loop.pc = "scanning")
  /\ []<>(loop.pc = "idle")

\* a cycle that a failure cut short has ended with the next one scheduled
C10_Witness ==
  /\ loop.pc = "idle"
  /\ timers = 1
  /\ \E n \in DOMAIN store : store[n].imageError = "err"

\* C11: the background cycles do not overlap.  The loop changes phase only along
\* IDLE -> SCANNING -> (candidate selection) -> REFRESHING -> IDLE, a cycle that has
\* nothing to refresh or whose scan fails going from SCANNING back to IDLE; a timer
\* for the next cycle is pending only while no cycle is running, and never two; and
\* refreshOne calls of the loop are in progress only in the REFRESHING phase, so a
\* cycle starts only after the calls of the previous one have finished.
LoopCalls == { c \in Active(calls) : calls[c].origin = "loop" }

PhaseOrder ==
  { <<"boot", "scanning">>, <<"idle", "scanning">>, <<"scanning", "refreshing">>,
    <<"scanning", "idle">>, <<"refreshing", "idle">> }

C11_CyclesDoNotOverlap ==
  /\ [][ loop'.pc # loop.pc => <<loop.pc, loop'.pc>> \in PhaseOrder ]_vars
  /\ [](timers + (IF CycleRunning THEN 1 ELSE 0) <= 1)
  /\ [](loop.pc # "refreshing" => LoopCalls = {})
  /\ [][ loop'.pc = "scanning" => (loop.pc \in {"boot", "idle"} /\ LoopCalls = {}) ]_vars

\* a cycle is refreshing its second candidate, the first one done, no timer pending
C11_Witness ==
  /\ loop.pc = "refreshing"
  /\ loop.idx = 2
  /\ LoopCalls # {}
  /\ timers = 0
  /\ \E n \in DOMAIN store : store[n].imageUpdatedAt # NoTime

\* C12: the candidates of a cycle come from the FIND_LIMIT most recently seen records
\* only, each of them has no image or is stale for image or for price when the scan
\* resolves, there are at most CANDIDATE_CAP of them and none twice, so refreshOne is
\* invoked at most CANDIDATE_CAP times per cycle; and at most one refreshOne call of
\* the loop is in progress at a time.
Range(s) == { s[i] : i \in 1..Len(s) }

AmongRecent(st, n, k) ==
  Cardinality({ m \in DOMAIN st : st[m].lastSeenAt > st[n].lastSeenAt }) < k

C12_CandidatesBounded ==
  /\ [][ (loop.pc = "scanning" /\ loop'.pc = "refreshing")
           => /\ Len(loop'.cand) <= CANDIDATE_CAP
              /\ Cardinality(Range(loop'.cand)) = Len(loop'.cand)
              /\ \A n \in Range(loop'.cand) :
                    /\ n \in DOMAIN store
                    /\ IsCandidate(store[n])
                    /\ AmongRecent(store, n, FIND_LIMIT) ]_vars
  /\ [](loop.idx <= Len(loop.cand) /\ Len(loop.cand) <= CANDIDATE_CAP)
  /\ [](Cardinality(LoopCalls) <= 1)

\* a cycle runs with as many candidates as the cap allows while a record it scanned
\* and one beyond the scan limit are eligible too
C12_Witness ==
  /\ loop.pc = "refreshing"
  /\ loop.idx = 1
  /\ Len(loop.cand) = CANDIDATE_CAP
  /\ \E n \in DOMAIN store \ Range(loop.cand) :
       IsCandidate(store[n]) /\ AmongRecent(store, n, FIND_LIMIT)
  /\ \E n \in DOMAIN store :
       IsCandidate(store[n]) /\ ~AmongRecent(store, n, FIND_LIMIT)

\* C13: a stamp is fresh iff it is present and its age is at most the TTL of its kind
\* (isStale is the negation: a missing stamp is stale, an age of exactly the TTL is
\* fresh); refreshOne starts the price resolution only for a record whose stored
\* steamUpdatedAt is missing or older than PRICE_TTL_MS; and a refreshOne that reads a
\* record with an image and with fresh image and price stamps returns without any
\* upstream call.
Fresh(at, ttl) == at # NoTime /\ now - at <= ttl

C13_FreshIffWithinTtl ==
  /\ [](\A at \in {NoTime} \cup 0..now : \A ttl \in {PRICE_TTL_MS, IMAGE_TTL_MS} :
          isStale(at, ttl) <=> ~Fresh(at, ttl))
  /\ [][ \A c \in CallIds :
          /\ (calls[c].pc # "updPrice" /\ calls'[c].pc = "updPrice")
               => /\ calls'[c].name \in DOMAIN store
                  /\ ~Fresh(store[calls'[c].name].steamUpdatedAt, PRICE_TTL_MS)
          /\ ( /\ FindOneDone(c)
               /\ calls[c].name \in DOMAIN store
               /\ store[calls[c].name].imageUrl # NULLS
               /\ Fresh(store[calls[c].name].imageUpdatedAt, IMAGE_TTL_MS)
               /\ Fresh(store[calls[c].name].steamUpdatedAt, PRICE_TTL_MS) )
               => calls'[c].pc = "free" ]_vars

\* a refreshOne with both flags set is about to read a record whose image stamp and
\* price stamp are each exactly one TTL old
C13_Witness ==
  \E c \in CallIds :
    /\ calls[c].pc = "findOne"
    /\ calls[c].refreshPrice /\ calls[c].refreshImage
    /\ calls[c].name \in DOMAIN store
    /\ store[calls[c].name].imageUrl # NULLS
    /\ store[calls[c].name].imageUpdatedAt # NoTime
    /\ now - store[calls[c].name].imageUpdatedAt = IMAGE_TTL_MS
    /\ store[calls[c].name].steamUpdatedAt # NoTime
    /\ now - store[calls[c].name].steamUpdatedAt = PRICE_TTL_MS

\* C14: GET /api/items answers without waiting for the refreshOne calls it triggers.
\* The step that sends the items response leaves every call it started pending at its
\* first await, and a request whose sheet and store operations are answered gets its
\* response even if no refreshOne operation ever completes.
StartedBy(c) == calls[c].pc = "free" /\ calls'[c].pc # "free"

C14_ResponseNotDelayed ==
  /\ [][ \A r \in ReqIds :
          (reqs[r].pc = "find" /\ reqs'[r].res = "items")
            => \A c \in CallIds :
                 StartedBy(c) => (calls'[c].pc = "findOne" /\ calls'[c].origin = "request") ]_vars
  /\ \A r \in ReqIds : (reqs[r].pc # "idle") ~> (reqs[r].pc = "idle")

\* the items response has been sent while a refresh the request triggered is waiting
\* for the image upstream
C14_Witness ==
  \E r \in ReqIds :
    /\ reqs[r].res = "items"
    /\ \E c \in Active(calls) : calls[c].origin = "request" /\ calls[c].pc = "fetchImage"

\* C15: in the in-memory variant a lookup that fails never fails the batch.  Once the
\* sheet is read the response is never the error payload, and the items response
\* holds exactly one entry per data row with a non-empty name, in sheet order, where
\* a failed image lookup has left imageUrl null and a failed price lookup has left
\* steamLowest, steamMedian and steamVolume null.
HasName(r) == r # <<>> /\ r[1] # ""

NamedRows(rows) == SelectSeq(Tail(rows), HasName)

C15_LookupFailuresNeverFailBatch ==
  /\ [][ mreq.pc = "mapLimit" => mreq'.res.kind # "error" ]_vars
  /\ [](mreq.res.kind = "items" =>
         LET named == NamedRows(mreq.rows)
             items == mreq.res.items
         IN /\ Len(items) = Len(named)
            /\ \A i \in 1..Len(named) :
                 /\ items[i].row = named[i]
                 /\ items[i].name = named[i][1]
            /\ \A f \in mreq.failed :
                 /\ f[2] = "image" => items[f[1]].imageUrl = NULLS
                 /\ f[2] = "price" => /\ items[f[1]].steamLowest = NoNum
                                      /\ items[f[1]].steamMedian = NoNum
                                      /\ items[f[1]].steamVolume = NoNum)

\* the items response of a sheet with a nameless row between named ones, after the
\* image lookup of one record and the price lookup of another failed and a third
\* record got both
C15_Witness ==
  /\ mreq.res.kind = "items"
  /\ Len(mreq.res.items) = 2
  /\ Len(mreq.rows) = 4
  /\ mreq.rows[3] = <<"">>
  /\ <<1, "image">> \in mreq.failed
  /\ <<1, "price">> \notin mreq.failed
  /\ <<2, "price">> \in mreq.failed
  /\ mreq.res.items[2].imageUrl # NULLS
  /\ mreq.res.items[1].steamLowest # NoNum

\* C16: a failed sheet read (and, in the persistent variant, a failed store operation
\* of the handler) is answered with the error payload alone, without header or items.
\* In the persistent variant the items response is sent only from the last step of a
\* run whose sheet read and store operations all succeeded; the step that sends the
\* error payload starts no refreshOne (refreshOne calls of the request path start in
\* the items step only), and when it is the sheet read that failed the store is as
\* it was.  In the in-memory variant the handler answers a failed sheet read with the
\* error payload and runs no lookup.
Answers(r) == reqs[r].pc # "idle" /\ reqs'[r].pc = "idle"

MemAnswers == mreq.pc # "idle" /\ mreq'.pc = "idle"

C16_WholeBatchFailureIsErrorPayload ==
  /\ [][ \A r \in ReqIds :
          /\ Answers(r) => reqs'[r] \in {ResItems, ResError}
          /\ (Answers(r) /\ reqs'[r] = ResItems) => reqs[r].pc = "find"
          /\ (ReqSheetFail(r) \/ ReqBulkFail(r) \/ ReqFindFail(r)) => reqs'[r] = ResError
          /\ (Answers(r) /\ reqs'[r] = ResError)
               => /\ \A c \in CallIds : ~StartedBy(c)
                  /\ inFlight' = inFlight
                  /\ reqs[r].pc = "readSheet" => store' = store ]_vars
  /\ [][ \A c \in CallIds :
          (StartedBy(c) /\ calls'[c].origin = "request")
            => \E r \in ReqIds : Answers(r) /\ reqs'[r] = ResItems ]_vars
  /\ [][ (MemAnswers /\ mreq.pc = "readSheet")
          => /\ mreq'.res = [NoResponse EXCEPT !.kind = "error"]
             /\ ml' = ml ]_vars
  /\ [](mreq.res.kind = "error" => (mreq.res.items = <<>> /\ ~mreq.res.hasHeader))

\* each variant has answered a request with the error payload: the in-memory one
\* after its sheet read failed, the persistent one with the record of an earlier
\* request in the store
C16_Witness ==
  /\ mreq.res.kind = "error"
  /\ \E r \in ReqIds : reqs[r] = ResError
  /\ store # <<>>
  /\ Active(calls) = {}

\* C17: enrichment writes are field-scoped.  The step that ends an image write of
\* refreshOne, successful or failed, leaves the five price fields of every record as
\* they were, the step that ends a price write leaves the three image fields as
\* they were, and no step at all changes an image field and a price field of one
\* record together: what one kind wrote is never overwritten by the other kind.
ImageFields(d) == <<d.imageUrl, d.imageUpdatedAt, d.imageError>>

PriceFieldsOf(d) ==
  <<d.steamLowest, d.steamMedian, d.steamVolume, d.steamUpdatedAt, d.steamError>>

InPricePart(c) == calls[c].pc \in {"updPrice", "updPriceErr"}

C17_WritesAreFieldScoped ==
  [][ /\ \A n \in DOMAIN store :
           /\ n \in DOMAIN store'
           /\ \/ ImageFields(store'[n]) = ImageFields(store[n])
              \/ PriceFieldsOf(store'[n]) = PriceFieldsOf(store[n])
      /\ \A c \in CallIds :
           /\ (InImagePart(c) /\ calls'[c] # calls[c])
                => \A n \in DOMAIN store : PriceFieldsOf(store'[n]) = PriceFieldsOf(store[n])
           /\ (InPricePart(c) /\ calls'[c] # calls[c])
                => \A n \in DOMAIN store : ImageFields(store'[n]) = ImageFields(store[n]) ]_vars

\* an image write is pending for a record that holds a price stamp and a price
\* error of earlier refreshes
C17_Witness ==
  \E c \in CallIds :
    /\ calls[c].pc = "updImage"
    /\ store[calls[c].name].steamUpdatedAt # NoTime
    /\ store[calls[c].name].steamError # NULLS

\* C18: an ingest changes nothing but the sheet-derived fields (here lastSeenAt) of
\* the records that exist already, whether or not a refreshOne for them is in
\* progress: their eight enrichment fields keep their values; the records it inserts
\* have all eight enrichment fields null.
Enrichment(d) == <<ImageFields(d), PriceFieldsOf(d)>>

Ingests(r) == reqs[r].pc = "readSheet" /\ reqs'[r].pc \in {"bulkWrite", "find"}

C18_IngestKeepsEnrichment ==
  [][ \A r \in ReqIds :
        Ingests(r) =>
          /\ \A n \in DOMAIN store :
               n \in DOMAIN store' /\ Enrichment(store'[n]) = Enrichment(store[n])
          /\ \A n \in DOMAIN store' \ DOMAIN store :
               Enrichment(store'[n]) = Enrichment(NewDoc(now)) ]_vars

\* an ingest has just stamped a record that holds an image of an earlier refresh
\* while a refreshOne for it is in progress
C18_Witness ==
  \E r \in ReqIds, c \in Active(calls) :
    /\ reqs[r].pc = "bulkWrite"
    /\ calls[c].name \in DOMAIN store
    /\ store[calls[c].name].lastSeenAt = now
    /\ store[calls[c].name].imageUpdatedAt # NoTime

CellEmpty(r, i) == i > Len(r) \/ r[i] = ""
HasNameCell(r) == ~CellEmpty(r, IDX_NAME)

NameWithWear(r) ==
  IF CellEmpty(r, IDX_WEAR) THEN r[IDX_NAME]
  ELSE r[IDX_NAME] \o " (" \o r[IDX_WEAR] \o ")"

Normalised(recs, body) ==
  LET named == SelectSeq(body, HasNameCell)
  IN /\ Len(recs) = Len(named)
     /\ \A i \in 1..Len(recs) :
          /\ recs[i].row = named[i]
          /\ recs[i].name = named[i][IDX_NAME]
          /\ recs[i].marketName = NameWithWear(named[i])
          /\ recs[i].marketName # ""

C20_RowsNormalised ==
  /\ norm.mem => Normalised(norm.items, Tail(norm.rows))
  /\ norm.db => Normalised(norm.ops, Tail(norm.rows))

\* both variants have normalised a sheet with a row without a name, a row with a
\* wear and a row with a name alone
C20_Witness ==
  /\ norm.mem
  /\ norm.db
  /\ \E i, j, k \in 1..Len(norm.rows) :
       /\ i > 1 /\ j > 1 /\ k > 1
       /\ ~HasNameCell(norm.rows[i])
       /\ HasNameCell(norm.rows[j]) /\ ~CellEmpty(norm.rows[j], IDX_WEAR)
       /\ HasNameCell(norm.rows[k]) /\ CellEmpty(norm.rows[k], IDX_WEAR)

\* C21 (as stated): parsing the empty text gives no rows, and the request handler
\* then takes its no-rows branch.
C21_EmptyTextYieldsNoRows ==
  /\ (norm.pc = "rows" /\ norm.text = "") => Len(norm.rows) = 0
  /\ (norm.mem /\ norm.text = "") => norm.noRows

\* C22 (as amended): a line of one or more quoted fields parses to as many cells as
\* were encoded, each with the content of its field less the white space at its two
\* ends, so exactly the original content for a cell that neither begins nor ends with
\* white space; commas and quotes inside a cell come back unchanged.
EndsClean(str) ==
  str = "" \/ (SubSeq(str, 1, 1) \notin WhiteSpace /\ SubSeq(str, Len(str), Len(str)) \notin WhiteSpace)

C22_QuotedFieldsRoundTripTrimmed ==
  (norm.pc = "parsed" /\ Len(norm.cells) > 0)
    => /\ Len(norm.out) = Len(norm.cells)
       /\ \A i \in 1..Len(norm.cells) :
            /\ norm.out[i] = Trim(norm.cells[i])
            /\ EndsClean(norm.cells[i]) => norm.out[i] = norm.cells[i]

HasChar(str, ch) == \E i \in 1..Len(str) : SubSeq(str, i, i) = ch

\* a line of two cells has been parsed of which one holds a comma and a quote and
\* the other begins with a blank
C22_Witness ==
  /\ norm.pc = "parsed"
  /\ Len(norm.cells) = 2
  /\ HasChar(norm.cells[1], COMMA) /\ HasChar(norm.cells[1], QUOTE)
  /\ norm.out[1] = norm.cells[1]
  /\ ~EndsClean(norm.cells[2])
  /\ norm.out[2] # norm.cells[2]

\* C22 (as stated): the parsed cells are exactly the encoded cells.
C22_QuotedFieldsRoundTrip ==
  norm.pc = "parsed" => norm.out = norm.cells

\* C23 (as stated): a sheet cell that is missing, empty or without a digit gives a
\* null sheetPrice, floatValue and paintSeed, never 0, and a cell whose stripped
\* text is a number gives that number (its whole part, for paintSeed); for
\* sheetPrice in the in-memory handler as well as in the persistent ingest.
NoDigit(cell) == cell = UNDEFINED \/ \A i \in 1..Len(cell) : SubSeq(cell, i, i) \notin DigitChars
Stripped(cell) == IF cell = UNDEFINED THEN "" ELSE StripNonNumeric(cell)
IsNumeral(str) == str # "" /\ NumberOf(str) # NaN

ParsedAs(result, cell) ==
  /\ NoDigit(cell) => result = NullNum
  /\ IsNumeral(Stripped(cell)) => result = NumberOf(Stripped(cell))

C23_NumericCellsNeverDefaultToZero ==
  /\ norm.pc = "cell" /\ norm.db
       => /\ ParsedAs(norm.sheetPrice, norm.cell)
          /\ ParsedAs(norm.floatValue, norm.cell)
          /\ NoDigit(norm.cell) => norm.paintSeed = NullNum
          /\ IsNumeral(Stripped(norm.cell))
               => norm.paintSeed = Num(Trunc(NumberOf(Stripped(norm.cell))[2]))
  /\ norm.pc = "cell" /\ norm.mem => ParsedAs(norm.memSheetPrice, norm.cell)

\* C24 (as stated): a formatted upstream string that is missing, or that holds no
\* parsable number once its non-numeric characters are stripped, gives a null
\* price field, never 0.
C24_UnparsableMoneyIsAbsent ==
  (norm.pc = "cell" /\ norm.priced /\ ~IsNumeral(Stripped(norm.cell)))
    => norm.steamLowest = NullNum

\* C25 (as stated): in both variants the upgraded URL holds no size token other than
\* /360fx360f, wherever in the URL the token was; a URL without a token is returned
\* unchanged; and upgrading twice gives what upgrading once gives.
TokenStarts(str) == { i \in 1..Len(str) : TokenEnd(str, i) > 0 }

AllTokensLarge(str) ==
  \A i \in TokenStarts(str) : SubSeq(str, i, TokenEnd(str, i)) = LARGE

Upgraded(url, once, twice) ==
  /\ url # NULLS => AllTokensLarge(once)
  /\ (url = NULLS \/ TokenStarts(url) = {}) => once = url
  /\ twice = once

C25_SizeTokenRewrittenAnywhere ==
  /\ (norm.pc = "url" /\ norm.mem) => Upgraded(norm.url, norm.once, norm.twice)
  /\ (norm.pc = "url" /\ norm.db) => Upgraded(norm.url, norm.dbOnce, norm.dbTwice)

\* C26 (as stated): a URL that Strategy A or Strategy B produced and that does not
\* start with "http" is returned with the static-asset base before it, so every
\* URL the image resolver returns starts with "http".
Completed(r, base) ==
  r.done /\ r.url # NULLS
    => /\ StartsWith(r.url, "http")
       /\ ~StartsWith(r.produced, "http") => StartsWith(r.url, base)

C26_ResolvedUrlsAreAbsolute ==
  norm.pc = "response" => Completed(norm.mem, BASE) /\ Completed(norm.db, BASE_PERSISTENT)

\* C27 (as stated): Strategy A visits the nodes of the assets tree last-pushed-first
\* (a node, then its children from the last to the first, each with its subtree),
\* stops at the first visited node that carries an icon_url_large or an icon_url,
\* takes icon_url_large if the node carries both, and so finds a URL whenever some
\* node carries one; Strategy B is consulted only when Strategy A found nothing.
RECURSIVE LastFirst(_, _)
RECURSIVE LastFirstOfAll(_, _)
LastFirst(tree, node) == <<node>> \o LastFirstOfAll(tree, Kids(tree, node))

LastFirstOfAll(tree, kids) ==
  IF kids = <<>> THEN <<>>
  ELSE LastFirst(tree, kids[Len(kids)]) \o LastFirstOfAll(tree, SubSeq(kids, 1, Len(kids) - 1))

Carries(tree, node) == Truthy(tree.large[node]) \/ Truthy(tree.icon[node])

Traversed(r, tree) ==
  LET order == IF tree.n = 0 THEN <<>> ELSE LastFirst(tree, 1)
      hits == { k \in 1..Len(order) : Carries(tree, order[k]) }
  IN r.done =>
       IF hits = {}
         THEN r.visited = order /\ r.strategy # "A"
         ELSE LET first == CHOOSE k \in hits : \A j \in hits : k <= j
                  node == order[first]
              IN /\ r.visited = SubSeq(order, 1, first)
                 /\ r.strategy = "A"
                 /\ r.produced = IF Truthy(tree.large[node]) THEN tree.large[node]
                                  ELSE tree.icon[node]

C27_StrategyAFindsFirstIcon ==
  norm.pc = "response" => Traversed(norm.mem, norm.assets) /\ Traversed(norm.db, norm.assets)

\* C28 (as amended): when the transform rejects on one item, the worker that invoked
\* it ends and mapLimit rejects; once no invocation is in progress, a pool of two or
\* more workers has applied the transform to every item and stored the result of
\* every other item, while a pool of one worker has applied it to no item after the
\* failing one.
Quiescent ==
  /\ ml.pc = "running"
  /\ ml.rejected
  /\ \A k \in DOMAIN ml.workers : ml.workers[k].pc # "await"

C28_FailureEndsOneWorker ==
  /\ (ml.pc = "running" /\ \E k \in DOMAIN ml.workers : ml.workers[k].pc = "failed")
       => ml.rejected
  /\ ml.rejected => ml.pc = "running"
  /\ Quiescent =>
       LET bad == CHOOSE i \in FailingAt(ml.items) : TRUE
       IN IF Len(ml.workers) >= 2
            THEN /\ ml.idx = Len(ml.items)
                 /\ \A i \in 1..Len(ml.items) :
                      i # bad => ml.results[i] = Transform(ml.items[i])
            ELSE /\ ml.idx = bad
                 /\ \A i \in 1..Len(ml.items) : i > bad => ml.results[i] = EMPTY

\* two workers have transformed the second and third of three items after the
\* transform rejected on the first
C28_Witness ==
  /\ Quiescent
  /\ Len(ml.items) = 3
  /\ ml.items[1] = FAILS
  /\ Len(ml.workers) = 2
  /\ ml.results[2] # EMPTY /\ ml.results[3] # EMPTY

\* C28 (as stated): once no invocation is in progress the transform has been applied
\* to every item, for every limit.
C28_EveryOtherItemTransformed ==
  Quiescent => ml.idx = Len(ml.items)

\* C29: in a mapLimit call with a transform that does not fail the cursor never
\* decreases; the indexes claimed so far are exactly those up to the cursor, each by
\* one worker and each transformed once (in progress at one worker or completed
\* once); when all N transforms have completed every worker has finished, so the
\* call returns, and it returns only then; with no items there are no workers and
\* the call returns the empty array.
Awaiting == { k \in DOMAIN ml.workers : ml.workers[k].pc = "await" }
CompletedIndexes == { ml.order[i] : i \in 1..Len(ml.order) }

ClaimedOnce ==
  ml.pc \in {"running", "returned"} =>
    /\ \A j, k \in Awaiting : j # k => ml.workers[j].my # ml.workers[k].my
    /\ \A k \in Awaiting : ml.workers[k].my \notin CompletedIndexes
    /\ \A i, j \in 1..Len(ml.order) : i # j => ml.order[i] # ml.order[j]
    /\ CompletedIndexes \cup { ml.workers[k].my : k \in Awaiting } = 1..ml.idx
    /\ ml.idx <= Len(ml.items)

CompletesWhenAllDone ==
  /\ (ml.pc = "running" /\ Len(ml.order) = Len(ml.items))
       => \A k \in DOMAIN ml.workers : ml.workers[k].pc = "done"
  /\ ml.pc = "returned" => CompletedIndexes = 1..Len(ml.items)
  /\ (ml.pc \in {"running", "returned"} /\ Len(ml.items) = 0)
       => ml.workers = <<>> /\ ml.results = <<>>

C29_EachIndexClaimedOnce ==
  /\ [](ClaimedOnce /\ CompletesWhenAllDone)
  /\ [][ml'.idx >= ml.idx]_vars

\* two workers are in progress on the third and fourth item after the first two
\* completed out of order
C29_Witness ==
  /\ ml.pc = "running"
  /\ ml.caller = "direct"
  /\ Len(ml.items) = 4
  /\ ml.order = <<2, 1>>
  /\ Cardinality(Awaiting) = 2
  /\ ml.idx = 4

\* C30 (as amended): a fetchSteamImage(k) started within the image TTL of a
\* resolution of fetchSteamImage(k) to a URL u returns u and sends no search request,
\* provided no other fetchSteamImage(k) has resolved since (one that was in flight
\* at the time overwrites the entry, with null if it found no image); likewise a
\* fetchSteamPrice(k) started within the price TTL of the latest stored response.
ResolverStarts(kind) == lastGet' # lastGet /\ lastGet'.kind = kind

NoNewRequest == \A f \in FetchIds : fetches'[f].pc # "idle" => fetches'[f] = fetches[f]

ServedFrom(kind, entry, ttl) ==
  \A k \in Keys :
    (/\ ResolverStarts(kind) /\ lastGet'.key = k
     /\ entry[k].value # NULLS
     /\ now - entry[k].at <= ttl)
      => /\ lastGet'.value = entry[k].value
         /\ NoNewRequest
         /\ \E f \in FetchIds : fetches'[f] = [IdleFetch EXCEPT !.returned = entry[k].value]

C30_FreshEntryServedUnlessOverwritten ==
  [][ /\ ServedFrom("image", lastSet["image"], CACHE_TTL_MS)
      /\ ServedFrom("price", lastSet["price"], PRICE_TTL_MS) ]_vars

\* a fetchSteamImage started after the clock moved, within the TTL of the resolution
\* that cached the URL, and returned it while another call was waiting upstream
C30_Witness ==
  /\ lastGet.kind = "image"
  /\ lastGet.value # NULLS
  /\ lastGet.setAt # NoTime
  /\ lastGet.at > lastGet.setAt
  /\ lastGet.at - lastGet.setAt <= CACHE_TTL_MS
  /\ lastGet.at = now
  /\ \E f \in FetchIds : fetches[f].returned = lastGet.value
  /\ \E f \in FetchIds : fetches[f].pc = "price"

\* C30 (as stated): after a resolution of fetchSteamImage(k) to a URL u, every
\* fetchSteamImage(k) started within the image TTL returns u without a search
\* request; likewise for fetchSteamPrice(k) and a stored response.
C30_ResolvedUrlServedWithinTtl ==
  [][ /\ ServedFrom("image", lastSet["imageResolved"], CACHE_TTL_MS)
      /\ ServedFrom("price", lastSet["priceStored"], PRICE_TTL_MS) ]_vars

\* C31 (as amended): a fetchSteamImage or fetchSteamPrice whose upstream call fails
\* throws, and the failure adds, changes or removes no entry of either cache; the
\* call as a whole has done nothing to the caches except that its own lookup may
\* have evicted the identifier's expired entry.  So no failure is cached, and a
\* call for the identifier made right after the failure queries the upstream again,
\* unless another resolution has written the identifier's entry meanwhile.
Fails(f, pc) == fetches[f].pc = pc /\ fetches'[f].pc = "idle" /\ fetches'[f].returned = "threw"

Misses(f, pc) == fetches[f].pc = "idle" /\ fetches'[f].pc = pc

Expired(cache, key, ttl) == key \in DOMAIN cache /\ now - cache[key].ts > ttl

OnlyEvicts(cache, after, key, ttl) ==
  \/ after = cache
  \/ /\ Expired(cache, key, ttl)
     /\ after = [k \in DOMAIN cache \ {key} |-> cache[k]]

AsFound(cache, before, key) ==
  key \notin DOMAIN cache \/ (key \in DOMAIN before /\ cache[key] = before[key])

C31_FailureIsNotCached ==
  [][ \A f \in FetchIds :
        /\ Misses(f, "search") =>
              (OnlyEvicts(imageCache, imageCache', fetches'[f].key, CACHE_TTL_MS)
                 /\ priceCache' = priceCache)
        /\ Misses(f, "price") =>
              (OnlyEvicts(priceCache, priceCache', fetches'[f].key, PRICE_TTL_MS)
                 /\ imageCache' = imageCache)
        /\ (Fails(f, "search") \/ Fails(f, "price")) =>
              (imageCache' = imageCache /\ priceCache' = priceCache)
        /\ (Fails(f, "search") /\ AsFound(imageCache', fetches[f].before, fetches[f].key))
              => (cacheGet(fetches[f].key).value)' = NULLS
        /\ (Fails(f, "price") /\ AsFound(priceCache', fetches[f].before, fetches[f].key))
              => (priceCacheGet(fetches[f].key).value)' = NULLS ]_vars

\* a fetchSteamImage has thrown while the image cache holds a null cached for
\* its identifier by an earlier resolution, and a fetchSteamPrice is in progress
C31_Witness ==
  /\ \E f \in FetchIds : fetches[f].returned = "threw"
  /\ \E k \in Keys : k \in DOMAIN imageCache /\ imageCache[k].imageUrl = NULLS
  /\ \E f \in FetchIds : fetches[f].pc = "price"

\* C31 (as stated): when the upstream call fails, the cache of the resolver is
\* exactly as it was before the call.
C31_FailedCallLeavesCacheAsBefore ==
  [][ \A f \in FetchIds :
        /\ Fails(f, "search") => imageCache' = fetches[f].before
        /\ Fails(f, "price") => priceCache' = fetches[f].before ]_vars

\* C32: two fetchSteamImage (or fetchSteamPrice) calls for one identifier can both
\* be waiting for the upstream; each one that resolves replaces the identifier's
\* entry by its own result stamped with the time of its completion, and nothing
\* else writes an entry, so once both have resolved the cache holds for the
\* identifier the one entry written by the resolution that completed last.
Resolves(f, pc) == fetches[f].pc = pc /\ fetches'[f].pc = "idle" /\ fetches'[f].returned # "threw"

Written(cache, after, key) ==
  key \in DOMAIN after /\ (key \notin DOMAIN cache \/ after[key] # cache[key])

C32_LastResolutionWins ==
  [][ /\ \A f \in FetchIds :
           /\ Resolves(f, "search") =>
                 imageCache' = [k \in DOMAIN imageCache \cup {fetches[f].key} |->
                                  IF k = fetches[f].key
                                    THEN [imageUrl |-> fetches'[f].returned, ts |-> now]
                                    ELSE imageCache[k]]
           /\ Resolves(f, "price") =>
                 priceCache' = [k \in DOMAIN priceCache \cup {fetches[f].key} |->
                                  IF k = fetches[f].key
                                    THEN [data |-> fetches'[f].returned, ts |-> now]
                                    ELSE priceCache[k]]
      /\ \A k \in Keys :
           /\ Written(imageCache, imageCache', k) =>
                 \E f \in FetchIds : Resolves(f, "search") /\ fetches[f].key = k
           /\ Written(priceCache, priceCache', k) =>
                 \E f \in FetchIds : Resolves(f, "price") /\ fetches[f].key = k ]_vars

\* two fetchSteamImage calls for one identifier were waiting for the upstream at the
\* same time; one resolved to a URL, then the other to null, and the entry is the null
C32_Witness ==
  \E k \in Keys :
    /\ \E f, g \in FetchIds :
         /\ fetches[f].pc = "idle" /\ fetches[f].returned = "u1"
         /\ fetches[g].pc = "idle" /\ fetches[g].returned = NULLS
    /\ lastSet["imageResolved"][k] = [at |-> now, value |-> "u1"]
    /\ k \in DOMAIN imageCache
    /\ imageCache[k] = [imageUrl |-> NULLS, ts |-> now]

\* C33: inFlight holds exactly the identifiers of the refreshOne calls that have
\* passed the guard and not yet finished, at most one call per identifier; so it is
\* empty when no refresh is in progress, however the refreshes ended, and the guard
\* stops a trigger only while a refresh of its identifier is in progress.
InProgressFor(n) == { c \in Active(calls) : calls[c].name = n }

C33_InFlightIsRefreshesInProgress ==
  /\ inFlight = { calls[c].name : c \in Active(calls) }
  /\ \A n \in inFlight : Cardinality(InProgressFor(n)) = 1
  /\ \A n \in Names : GuardBlocks(inFlight, n) <=> InProgressFor(n) # {}

\* a refresh that has just passed the guard for an identifier whose earlier refresh
\* ended after a failed resolution
C33_Witness ==
  \E c \in CallIds :
    /\ calls[c].pc = "findOne"
    /\ calls[c].name \in DOMAIN store
    /\ store[calls[c].name].imageError = "err"
    /\ inFlight = {calls[c].name}

\* C34: a refreshOne trigger that finds a refresh of its identifier in progress does
\* nothing: the store is not written, the refresh in progress stays where it is with
\* the kinds it was started with, no other call for the identifier is started, and
\* the identifier stays in inFlight.  Nothing is kept for later: a refresh started
\* without refreshPrice never reaches the price part, whatever the stopped triggers
\* asked for, and when it finishes no refresh of the identifier is in progress.
StoppedAt(c) ==
  /\ calls[c].pc # "free"
  /\ calls'[c].pc # "free"
  /\ \/ calls'[c].overlapped /\ ~calls[c].overlapped
     \/ calls'[c].skippedPrice /\ ~calls[c].skippedPrice

InPriceWrite(c) == calls[c].pc \in {"updPrice", "updPriceErr"}

C34_StoppedTriggerDoesNothing ==
  /\ [](\A c \in CallIds : InPriceWrite(c) => calls[c].refreshPrice)
  /\ [][ \A c \in CallIds :
           /\ StoppedAt(c) =>
                 /\ store' = store
                 /\ calls'[c] = [calls[c] EXCEPT !.overlapped = TRUE,
                                                 !.skippedPrice = calls'[c].skippedPrice]
                 /\ calls[c].name \in inFlight'
                 /\ \A d \in CallIds \ {c} :
                      calls'[d].pc # "free" => calls'[d].name # calls[c].name
           /\ (calls[c].pc # "free" /\ calls'[c].pc = "free") =>
                 /\ calls[c].name \notin inFlight'
                 /\ \A d \in CallIds :
                      calls'[d].pc # "free" => calls'[d].name # calls[c].name ]_vars

\* a refresh that a request started without refreshPrice is writing its image, after
\* the guard stopped a trigger for the identifier that asked for the price; the
\* record has no price timestamp
C34_Witness ==
  \E c \in CallIds :
    /\ calls[c].pc = "updImage"
    /\ ~calls[c].refreshPrice
    /\ calls[c].skippedPrice
    /\ calls[c].origin = "request"
    /\ store[calls[c].name].steamUpdatedAt = NoTime
    /\ inFlight = {calls[c].name}

\* C35: with every operation completing and the loop running, a record that stays
\* among the FIND_LIMIT most recently seen and stays a candidate (no image, or a
\* stale image or price) is passed to refreshOne by some cycle.
StaysCandidate(n) ==
  /\ n \in DOMAIN store
  /\ AmongRecent(store, n, FIND_LIMIT)
  /\ IsCandidate(store[n])

C35_CandidateEventuallyRefreshed ==
  \A n \in CapNames :
    [](StaysCandidate(n)) => <>(\E c \in Active(calls) : calls[c].name = n)

\* C36: a success write of refreshOne sets, in one update, the resolved value, the
\* kind's updatedAt (the time the write was issued) and the kind's error to null,
\* and leaves the other fields; imageUpdatedAt and steamUpdatedAt of a record change
\* in no other step.  So after a success the record carries no error of that kind.
ImageWritten(c) == calls[c].pc = "updImage" /\ calls'[c].pc \notin {"updImage", "updImageErr"}

PriceWritten(c) == calls[c].pc = "updPrice" /\ calls'[c].pc \notin {"updPrice", "updPriceErr"}

ImageSuccess(c) ==
  store' = [store EXCEPT ![calls[c].name] =
              [@ EXCEPT !.imageUrl = calls[c].wUrl, !.imageUpdatedAt = calls[c].wAt,
                        !.imageError = NULLS]]

PriceSuccess(c) ==
  store' = [store EXCEPT ![calls[c].name] =
              [@ EXCEPT !.steamLowest = fetchSteamPrice(calls[c].name).lowest,
                        !.steamMedian = fetchSteamPrice(calls[c].name).median,
                        !.steamVolume = fetchSteamPrice(calls[c].name).volume,
                        !.steamUpdatedAt = calls[c].wAt, !.steamError = NULLS]]

C36_SuccessWritesValueStampAndClearsError ==
  [][ /\ \A c \in CallIds :
           /\ ImageWritten(c) => (ImageSuccess(c) /\ calls[c].wAt <= now)
           /\ PriceWritten(c) => (PriceSuccess(c) /\ calls[c].wAt <= now)
      /\ \A n \in DOMAIN store :
           /\ store'[n].imageUpdatedAt # store[n].imageUpdatedAt =>
                 \E c \in CallIds : calls[c].name = n /\ ImageWritten(c)
           /\ store'[n].steamUpdatedAt # store[n].steamUpdatedAt =>
                 \E c \in CallIds : calls[c].name = n /\ PriceWritten(c) ]_vars

\* a refresh that read a record with an imageError has resolved the image to a URL
\* and written it: the record has the URL, a timestamp and no imageError
C36_Witness ==
  \E c \in CallIds :
    /\ calls[c].pc = "updPrice"
    /\ calls[c].dImageError = "err"
    /\ calls[c].imageOutcome = "ok"
    /\ calls[c].wUrl = "u1"
    /\ store[calls[c].name].imageUrl = "u1"
    /\ store[calls[c].name].imageUpdatedAt # NoTime
    /\ store[calls[c].name].imageError = NULLS

\* C37: the step in which GET /api/items fires its refreshes starts or, at the guard,
\* stops a refreshOne only for records among the N most recently seen, at most N of
\* them; each refresh it starts has refreshImage set and refreshPrice equal to the
\* request's include-price flag.  A refresh started by a request without the flag
\* never reaches a price write, and the price fields of a record change only in the
\* price write of a refresh that has refreshPrice set.
Fires(r) == reqs[r].pc = "find" /\ reqs'[r].res = "items"

StartedAt(c) == calls[c].pc = "free" /\ calls'[c].pc # "free"

Triggered == { c \in CallIds : StartedAt(c) \/ StoppedAt(c) }

PriceFieldsChange(n) ==
  \/ store'[n].steamLowest # store[n].steamLowest
  \/ store'[n].steamMedian # store[n].steamMedian
  \/ store'[n].steamVolume # store[n].steamVolume
  \/ store'[n].steamUpdatedAt # store[n].steamUpdatedAt
  \/ store'[n].steamError # store[n].steamError

C37_RequestRefreshesTopNWithItsFlags ==
  /\ [](\A c \in CallIds : InPriceWrite(c) => calls[c].refreshPrice)
  /\ [][ /\ \A r \in ReqIds : Fires(r) =>
             /\ Cardinality({ calls'[c].name : c \in Triggered }) <= N
             /\ \A c \in Triggered : AmongRecent(store, calls'[c].name, N)
             /\ \A c \in CallIds : StartedAt(c) =>
                  /\ calls'[c].origin = "request"
                  /\ calls'[c].refreshImage
                  /\ calls'[c].refreshPrice = reqs[r].includePrice
         /\ \A c \in CallIds :
              (calls[c].pc # "free" /\ calls'[c].pc # "free") =>
                 /\ calls'[c].refreshPrice = calls[c].refreshPrice
                 /\ calls'[c].refreshImage = calls[c].refreshImage
         /\ \A n \in DOMAIN store : PriceFieldsChange(n) =>
              \E c \in CallIds :
                /\ calls[c].name = n
                /\ InPriceWrite(c)
                /\ calls[c].refreshPrice ]_vars

\* a request without the flag has fired its refreshes over a store of more than N
\* records: N refreshes are in progress, none with refreshPrice, and a record that
\* was not among the N most recent has none
C37_Witness ==
  /\ Cardinality(DOMAIN store) > N
  /\ Cardinality(Active(calls)) = N
  /\ \A c \in Active(calls) :
       /\ calls[c].origin = "request"
       /\ calls[c].refreshImage
       /\ ~calls[c].refreshPrice
       /\ AmongRecent(store, calls[c].name, N)
  /\ \E n \in DOMAIN store : ~AmongRecent(store, n, N) /\ InProgressFor(n) = {}
  /\ \E r \in ReqIds : reqs[r].res = "items"

====
